---- MODULE Spec2Model ----
(***************************************************************************)
(* Model of the client-side cache, session rate limiter and visualization  *)
(* request coordinator of ghana-paint-ai (src/services/cache.ts,           *)
(* src/App.tsx, src/lib/debounce.ts).                                      *)
(*                                                                         *)
(* Time is Date.now() in milliseconds since the epoch; UTC day d starts at *)
(* d * DAY_MS and UTC hour windows start at multiples of HOUR_MS.          *)
(***************************************************************************)
EXTENDS Integers, Naturals, Sequences, FiniteSets, TLC

VARIABLES
    now,              \* Date.now()
    ls,               \* localStorage[STORAGE_KEY]: <<>> or <<RateLimitData>>
    idb,              \* IndexedDB backup record under the fingerprint key
    idbPending,       \* requests to the backup database not yet served (FIFO):
                      \* the data of saveToIDB calls, the read of loadFromIDB
    hasCheckedBackup, \* module flag of initRateLimiter
    initPc,           \* initRateLimiter: "idle" | "loading" | "done"
    res,              \* result of the limiter operation of the last step
    flowPc,           \* caller flows: "idle" | "admitted"
    recLog,           \* history: recordVisualization calls of the latest day
    envLog,           \* history: clearings of localStorage, page reloads
    dbConnection,     \* ImageCache.dbConnection is not null
    store,            \* object store 'images': key -> <<>> or <<entry>>
    memoryCache,      \* ImageCache.memoryCache: key -> <<>> or <<entry>>
    calls,            \* getOrSet invocations, by slot
    resolved,         \* history: key -> the last value a getOrSet resolved with
    nextVal,          \* the artifact the next successful remote fetch returns
    deps,             \* App state read by performVisualization: base64Raw,
                      \* imageHash, visualizationCount, analysisResult
    appState,         \* AppState: "IDLE" | "VISUALIZING"
    proc,             \* processImage in progress: "none" | "hashing" | "analyzing"
    visualizedImage,  \* <<>> or <<the artifact on display>>
    loading,          \* the loading indicator
    error,            \* the error banner: "" when null
    currentRequestRef,\* <<>> when null, or <<requestId>>
    timeoutId,        \* pending timer of the current debounced function
    orphans,          \* pending timers of debounced functions of earlier renders
    reqs,             \* history: the requests performVisualization dispatched
    trigLog,          \* history: the handleVisualize calls
    fired,            \* history: triggers whose performVisualization call was made
    sinceTrigger,     \* ms since the last handleVisualize, up to DEBOUNCE_MS
    coordLog,         \* history: uploads, resets, clock steps
    imgLog,           \* history: the hashes recordImageUpload admitted today
    fault,            \* localStorage throws on: "none" | "read" | "write" | "both"
    clearPc,          \* ImageCache.clear: "idle" | "open" | "clearing" |
                      \* "cleared" | "openFailed" | "clearFailed"
    requestCounts,    \* the arguments of two calculateCooldown calls
    cooldown,         \* per call: <<>> or <<the seconds it returned>>
    payloads,         \* the base64 payloads of two photos
    hashLog           \* history: the generateImageHash calls made

rlVars == <<ls, idb, idbPending, hasCheckedBackup, initPc, res, flowPc,
            recLog, envLog, imgLog, fault>>
cacheVars == <<dbConnection, store, memoryCache, calls, resolved, nextVal,
               clearPc>>
coordVars == <<deps, appState, proc, visualizedImage, loading, error,
               currentRequestRef, timeoutId, orphans, reqs, trigLog, fired,
               sinceTrigger, coordLog>>
pureVars == <<requestCounts, cooldown, payloads, hashLog>>
vars == <<now, rlVars, cacheVars, coordVars, pureVars>>

----------------------------------------------------------------------------
(* Units of time *)
SECOND_MS == 1000
MINUTE_MS == 60 * SECOND_MS
HOUR_MS == 60 * MINUTE_MS
DAY_MS == 24 * HOUR_MS

(* LIMITS, cache.ts:208-215 *)
DAILY_VISUALIZATIONS == 7
HOURLY_VISUALIZATIONS == 2
MIN_COOLDOWN_SECONDS == 5
MAX_COOLDOWN_SECONDS == 15
MAX_UNIQUE_IMAGES_PER_DAY == 3
PROGRESSIVE_DELAY_ENABLED == TRUE

(* Bounds of the model *)
TickMs == 5000               \* the small step of the clock
MaxSub == 3                  \* small steps taken inside one hour window
MaxEve == 2                  \* clock steps before and after a boundary
MaxHours == 4                \* hour windows visited
MaxCount == 8                \* recordVisualization calls per day
MaxPending == 2              \* saveToIDB calls in flight
NFlows == 2                  \* concurrent caller flows
MaxClears == 1               \* clearings of localStorage
MaxReloads == 1              \* page reloads
MaxCacheTicks == 2           \* half-TTL steps of the clock
MaxFetches == 2              \* successful remote fetches
MaxTriggers == 3             \* handleVisualize calls
MaxUploads == 2              \* photos processed
MaxResets == 1               \* handleReset calls
MaxCoordTicks == 4           \* clock steps of the coordinator
MaxSessionTicks == 6         \* clock steps of a single session
MaxShortTicks == 4           \* clock steps of a short session
MaxRequestCount == 12        \* the largest argument of calculateCooldown
MaxHashCalls == 3            \* generateImageHash calls
MaxWindowRecords == 2         \* recordVisualization calls per day, with all four operations
MaxFaultRecords == 2         \* recordVisualization calls on a failing storage

Photos == {1, 2}             \* photos the user can upload
RawColors == {<<"a">>, <<"#", "B">>}   \* colorHex texts the palette passes
Calls == {1, 2}              \* slots of getOrSet invocations in flight

Flows == 1..NFlows

\* The hashes recordImageUpload is called with: one more than the cap
UploadHashes == {<<"sha256", p>> : p \in 1..4}

Faults == {"none", "read", "write", "both"}

Min(a, b) == IF a <= b THEN a ELSE b
CeilDiv(a, b) == (a + b - 1) \div b
FloorDiv(a, b) == a \div b

----------------------------------------------------------------------------
(* Clock helpers of the limiter *)

\* getTodayString: the YYYY-MM-DD text of the UTC date, one text per UTC day;
\* the day number stands for the text.
getTodayString(t) == t \div DAY_MS

getCurrentHourWindow(t) == t - (t % HOUR_MS)

getTimeUntilDailyReset(t) == (getTodayString(t) + 1) * DAY_MS - t

getTimeUntilHourlyReset(t) == getCurrentHourWindow(t) + HOUR_MS - t

initializeData(t) ==
    [ daily |-> [date |-> getTodayString(t), count |-> 0, lastReset |-> t],
      hourly |-> [window |-> getCurrentHourWindow(t), count |-> 0,
                  requests |-> <<>>],
      lastRequest |-> 0,
      images |-> <<>>,
      cooldownUntil |-> 0 ]

\* loadData without the catch of a failing read: the stored data all the same.
loadData_ignoreFault(stored) == stored

\* loadData: the stored text parsed, or null (<<>>) when the key is absent,
\* and null when getItem or JSON.parse throws.
loadData(stored) == IF fault \in {"read", "both"} THEN <<>> ELSE stored

\* Array.prototype.filter with the predicate timestamp >= currentHour.
RECURSIVE FilterFrom(_, _)
FilterFrom(s, lo) ==
    IF s = <<>> THEN <<>>
    ELSE IF Head(s) >= lo THEN <<Head(s)>> \o FilterFrom(Tail(s), lo)
         ELSE FilterFrom(Tail(s), lo)

\* getData without the reset of the daily count on a new day.
getData_noDailyReset(stored, t) ==
    IF loadData(stored) = <<>> THEN initializeData(t)
    ELSE LET d0 == loadData(stored)[1]
             d1 == d0
             d2 == IF d1.hourly.window # getCurrentHourWindow(t)
                   THEN [d1 EXCEPT !.hourly = [window |-> getCurrentHourWindow(t),
                                               count |-> 0, requests |-> <<>>]]
                   ELSE d1
             rq == FilterFrom(d2.hourly.requests, getCurrentHourWindow(t))
         IN [d2 EXCEPT !.hourly.requests = rq, !.hourly.count = Len(rq)]

\* getData without the reset and the clean-up of the hourly window.
getData_noHourlyCleanup(stored, t) ==
    IF loadData(stored) = <<>> THEN initializeData(t)
    ELSE LET d0 == loadData(stored)[1]
             d1 == IF d0.daily.date # getTodayString(t)
                   THEN [d0 EXCEPT !.daily = [date |-> getTodayString(t),
                                              count |-> 0, lastReset |-> t],
                                   !.images = <<>>]
                   ELSE d0
             d2 == d1
             rq == d2.hourly.requests
         IN [d2 EXCEPT !.hourly.requests = rq, !.hourly.count = Len(rq)]

\* getData that keeps the stored hourly window and only filters its requests.
getData_staleWindow(stored, t) ==
    IF loadData(stored) = <<>> THEN initializeData(t)
    ELSE LET d0 == loadData(stored)[1]
             d1 == IF d0.daily.date # getTodayString(t)
                   THEN [d0 EXCEPT !.daily = [date |-> getTodayString(t),
                                              count |-> 0, lastReset |-> t],
                                   !.images = <<>>]
                   ELSE d0
             d2 == d1
             rq == FilterFrom(d2.hourly.requests, getCurrentHourWindow(t))
         IN [d2 EXCEPT !.hourly.requests = rq, !.hourly.count = Len(rq)]

\* getData: the data it returns; every path of getData ends in saveData(data).
getData(stored, t) ==
    IF loadData(stored) = <<>> THEN initializeData(t)
    ELSE LET d0 == loadData(stored)[1]
             d1 == IF d0.daily.date # getTodayString(t)
                   THEN [d0 EXCEPT !.daily = [date |-> getTodayString(t),
                                              count |-> 0, lastReset |-> t],
                                   !.images = <<>>]
                   ELSE d0
             d2 == IF d1.hourly.window # getCurrentHourWindow(t)
                   THEN [d1 EXCEPT !.hourly = [window |-> getCurrentHourWindow(t),
                                               count |-> 0, requests |-> <<>>]]
                   ELSE d1
             rq == FilterFrom(d2.hourly.requests, getCurrentHourWindow(t))
         IN [d2 EXCEPT !.hourly.requests = rq, !.hourly.count = Len(rq)]

\* calculateCooldown without the cap.
calculateCooldown_uncapped(requestCount) ==
    IF ~PROGRESSIVE_DELAY_ENABLED THEN MIN_COOLDOWN_SECONDS
    ELSE MIN_COOLDOWN_SECONDS + (requestCount - 1) * 5

\* calculateCooldown without the progression: always the minimum.
calculateCooldown_flat(requestCount) == MIN_COOLDOWN_SECONDS

calculateCooldown(requestCount) ==
    IF ~PROGRESSIVE_DELAY_ENABLED THEN MIN_COOLDOWN_SECONDS
    ELSE Min(MIN_COOLDOWN_SECONDS + (requestCount - 1) * 5, MAX_COOLDOWN_SECONDS)

NoRes == [op |-> "none"]

\* The entry of loadFromIDB in the queue of requests to the backup database.
\* indexedDB.open requests are served in the order they were made, and a
\* transaction starts after the earlier ones on the same store are done.
BackupRead == [read |-> "backup"]

\* The saveToIDB calls in a queue of requests
Writes(pending) == SelectSeq(pending, LAMBDA e : e # BackupRead)

\* checkRateLimit with the daily comparison off by one (> for >=).
checkResult_dailyStrict(data, t) ==
    IF data.cooldownUntil > t THEN
        LET waitTime == CeilDiv(data.cooldownUntil - t, 1000) IN
        [ op |-> "check", allowed |-> FALSE,
          reason |-> <<"Please wait", waitTime>>,
          waitTime |-> waitTime,
          dailyRemaining |-> DAILY_VISUALIZATIONS - data.daily.count,
          hourlyRemaining |-> HOURLY_VISUALIZATIONS - data.hourly.count,
          timeUntilDailyReset |-> -1 ]
    ELSE IF data.daily.count > DAILY_VISUALIZATIONS THEN
        [ op |-> "check", allowed |-> FALSE,
          reason |-> <<"Daily limit reached", DAILY_VISUALIZATIONS,
                       DAILY_VISUALIZATIONS,
                       FloorDiv(getTimeUntilDailyReset(t), HOUR_MS),
                       FloorDiv(getTimeUntilDailyReset(t) % HOUR_MS, MINUTE_MS)>>,
          waitTime |-> -1,
          dailyRemaining |-> 0,
          hourlyRemaining |-> HOURLY_VISUALIZATIONS - data.hourly.count,
          timeUntilDailyReset |-> getTimeUntilDailyReset(t) ]
    ELSE IF data.hourly.count >= HOURLY_VISUALIZATIONS THEN
        [ op |-> "check", allowed |-> FALSE,
          reason |-> <<"Hourly limit reached", HOURLY_VISUALIZATIONS,
                       HOURLY_VISUALIZATIONS,
                       CeilDiv(getTimeUntilHourlyReset(t), MINUTE_MS)>>,
          waitTime |-> CeilDiv(getTimeUntilHourlyReset(t), 1000),
          dailyRemaining |-> DAILY_VISUALIZATIONS - data.daily.count,
          hourlyRemaining |-> 0,
          timeUntilDailyReset |-> -1 ]
    ELSE
        [ op |-> "check", allowed |-> TRUE,
          reason |-> <<>>,
          waitTime |-> -1,
          dailyRemaining |-> DAILY_VISUALIZATIONS - data.daily.count,
          hourlyRemaining |-> HOURLY_VISUALIZATIONS - data.hourly.count,
          timeUntilDailyReset |-> -1 ]

\* checkRateLimit with the hourly check moved before the daily check.
checkResult_hourlyFirst(data, t) ==
    IF data.cooldownUntil > t THEN
        LET waitTime == CeilDiv(data.cooldownUntil - t, 1000) IN
        [ op |-> "check", allowed |-> FALSE,
          reason |-> <<"Please wait", waitTime>>,
          waitTime |-> waitTime,
          dailyRemaining |-> DAILY_VISUALIZATIONS - data.daily.count,
          hourlyRemaining |-> HOURLY_VISUALIZATIONS - data.hourly.count,
          timeUntilDailyReset |-> -1 ]
    ELSE IF data.hourly.count >= HOURLY_VISUALIZATIONS THEN
        [ op |-> "check", allowed |-> FALSE,
          reason |-> <<"Hourly limit reached", HOURLY_VISUALIZATIONS,
                       HOURLY_VISUALIZATIONS,
                       CeilDiv(getTimeUntilHourlyReset(t), MINUTE_MS)>>,
          waitTime |-> CeilDiv(getTimeUntilHourlyReset(t), 1000),
          dailyRemaining |-> DAILY_VISUALIZATIONS - data.daily.count,
          hourlyRemaining |-> 0,
          timeUntilDailyReset |-> -1 ]
    ELSE IF data.daily.count >= DAILY_VISUALIZATIONS THEN
        [ op |-> "check", allowed |-> FALSE,
          reason |-> <<"Daily limit reached", DAILY_VISUALIZATIONS,
                       DAILY_VISUALIZATIONS,
                       FloorDiv(getTimeUntilDailyReset(t), HOUR_MS),
                       FloorDiv(getTimeUntilDailyReset(t) % HOUR_MS, MINUTE_MS)>>,
          waitTime |-> -1,
          dailyRemaining |-> 0,
          hourlyRemaining |-> HOURLY_VISUALIZATIONS - data.hourly.count,
          timeUntilDailyReset |-> getTimeUntilDailyReset(t) ]
    ELSE
        [ op |-> "check", allowed |-> TRUE,
          reason |-> <<>>,
          waitTime |-> -1,
          dailyRemaining |-> DAILY_VISUALIZATIONS - data.daily.count,
          hourlyRemaining |-> HOURLY_VISUALIZATIONS - data.hourly.count,
          timeUntilDailyReset |-> -1 ]

\* The RateLimitResult of checkRateLimit for the data getData returned;
\* an absent optional field is -1, the reason text is kept as its parts.
checkResult(data, t) ==
    IF data.cooldownUntil > t THEN
        LET waitTime == CeilDiv(data.cooldownUntil - t, 1000) IN
        [ op |-> "check", allowed |-> FALSE,
          reason |-> <<"Please wait", waitTime>>,
          waitTime |-> waitTime,
          dailyRemaining |-> DAILY_VISUALIZATIONS - data.daily.count,
          hourlyRemaining |-> HOURLY_VISUALIZATIONS - data.hourly.count,
          timeUntilDailyReset |-> -1 ]
    ELSE IF data.daily.count >= DAILY_VISUALIZATIONS THEN
        LET timeUntilReset == getTimeUntilDailyReset(t) IN
        [ op |-> "check", allowed |-> FALSE,
          reason |-> <<"Daily limit reached", DAILY_VISUALIZATIONS,
                       DAILY_VISUALIZATIONS,
                       FloorDiv(timeUntilReset, HOUR_MS),
                       FloorDiv(timeUntilReset % HOUR_MS, MINUTE_MS)>>,
          waitTime |-> -1,
          dailyRemaining |-> 0,
          hourlyRemaining |-> HOURLY_VISUALIZATIONS - data.hourly.count,
          timeUntilDailyReset |-> timeUntilReset ]
    ELSE IF data.hourly.count >= HOURLY_VISUALIZATIONS THEN
        LET timeUntilReset == getTimeUntilHourlyReset(t) IN
        [ op |-> "check", allowed |-> FALSE,
          reason |-> <<"Hourly limit reached", HOURLY_VISUALIZATIONS,
                       HOURLY_VISUALIZATIONS, CeilDiv(timeUntilReset, MINUTE_MS)>>,
          waitTime |-> CeilDiv(timeUntilReset, 1000),
          dailyRemaining |-> DAILY_VISUALIZATIONS - data.daily.count,
          hourlyRemaining |-> 0,
          timeUntilDailyReset |-> -1 ]
    ELSE
        [ op |-> "check", allowed |-> TRUE,
          reason |-> <<>>,
          waitTime |-> -1,
          dailyRemaining |-> DAILY_VISUALIZATIONS - data.daily.count,
          hourlyRemaining |-> HOURLY_VISUALIZATIONS - data.hourly.count,
          timeUntilDailyReset |-> -1 ]

\* The data recordVisualization saves, from the data getData returned.
\* recordVisualization that counts the request of the hour without logging it.
recordedData_noPush(data, t) ==
    LET d1 == [data EXCEPT !.daily.count = @ + 1]
        d2 == IF d1.hourly.window = getCurrentHourWindow(t)
              THEN [d1 EXCEPT !.hourly.count = @ + 1]
              ELSE [d1 EXCEPT !.hourly = [window |-> getCurrentHourWindow(t),
                                          count |-> 1, requests |-> <<t>>]]
        cooldownSeconds == calculateCooldown(d2.daily.count)
    IN [d2 EXCEPT !.cooldownUntil = t + cooldownSeconds * 1000,
                  !.lastRequest = t]

recordedData(data, t) ==
    LET d1 == [data EXCEPT !.daily.count = @ + 1]
        d2 == IF d1.hourly.window = getCurrentHourWindow(t)
              THEN [d1 EXCEPT !.hourly.count = @ + 1,
                              !.hourly.requests = Append(@, t)]
              ELSE [d1 EXCEPT !.hourly = [window |-> getCurrentHourWindow(t),
                                          count |-> 1, requests |-> <<t>>]]
        cooldownSeconds == calculateCooldown(d2.daily.count)
    IN [d2 EXCEPT !.cooldownUntil = t + cooldownSeconds * 1000,
                  !.lastRequest = t]

----------------------------------------------------------------------------
(* ImageCache *)
TTL == 7 * 24 * 60 * 60 * 1000

IdleCall == [pc |-> "idle", key |-> <<>>, owner |-> 0, fetches |-> 0,
             rejected |-> 0, val |-> 0, out |-> <<>>, ts |-> 0, prior |-> <<>>,
             err |-> FALSE, reopen |-> FALSE]

\* data && Date.now() - data.timestamp < TTL
Live(e, t) == e # <<>> /\ t - e[1].timestamp < TTL

(* The coordinator of App.tsx *)
MAX_VISUALIZATIONS == 5
DEBOUNCE_MS == 300
CoordTickMs == DEBOUNCE_MS \div 2

\* colorHex.trim(), on a text given as the sequence of its characters
RECURSIVE TrimStart(_)
TrimStart(s) == IF s # <<>> /\ Head(s) = " " THEN TrimStart(Tail(s)) ELSE s
RECURSIVE TrimEnd(_)
TrimEnd(s) ==
    IF s # <<>> /\ s[Len(s)] = " " THEN TrimEnd(SubSeq(s, 1, Len(s) - 1)) ELSE s
Trim(s) == TrimEnd(TrimStart(s))

\* String.prototype.toUpperCase on the characters of a hex colour
UpperChar(ch) ==
    CASE ch = "a" -> "A" [] ch = "b" -> "B" [] ch = "c" -> "C"
      [] ch = "d" -> "D" [] ch = "e" -> "E" [] ch = "f" -> "F"
      [] OTHER -> ch
ToUpperCase(s) == [i \in 1..Len(s) |-> UpperChar(s[i])]

\* normalizedHexWithHash of performVisualization
NormalizeHex(colorHex) ==
    LET upper == ToUpperCase(Trim(colorHex))
        normalizedHex == IF upper # <<>> /\ Head(upper) = "#" THEN Tail(upper) ELSE upper
    IN IF normalizedHex # <<>> /\ Head(normalizedHex) = "#"
       THEN normalizedHex
       ELSE <<"#">> \o normalizedHex

\* requestId = `${imageHash}_${normalizedHexWithHash}`
RequestId(imageHash, hex) == <<imageHash, hex>>

\* cacheKey = `visualization_${imageHash}_${normalizedHexWithHash}`
CacheKey(imageHash, hex) == <<"visualization", imageHash, hex>>

\* ImageCache.generateImageHash on the photos in use: the digest of the photo
ImageHash(photo) == <<"sha256", photo>>

\* base64Raw '' is 0, imageHash '' is <<>>, analysisResult null is FALSE
NoDeps == [base64Raw |-> 0, imageHash |-> <<>>, visualizationCount |-> 0,
           analysisResult |-> FALSE]

Keys == {CacheKey(ImageHash(p), NormalizeHex(x)) : p \in Photos, x \in RawColors}

\* Keys used by callers other than the coordinator
ClientKeys == {CacheKey(ImageHash(1), NormalizeHex(x)) : x \in RawColors}

\* The sanity check of performVisualization on a fetched artifact: a text of
\* 100 characters or more; short artifacts carry a negative number.
ValidArtifact(v) == v > 0


----------------------------------------------------------------------------
(* ImageCache.generateImageHash and its fallback.                          *)
(* A text is the sequence of its runs [ch, n]: n >= 1 times the character  *)
(* ch, no two neighbouring runs of the same character.                     *)

Max(a, b) == IF a >= b THEN a ELSE b

Run(ch, n) == IF n > 0 THEN <<[ch |-> ch, n |-> n]>> ELSE <<>>

\* s + t
Concat(s, t) ==
    IF s = <<>> THEN t
    ELSE IF t = <<>> THEN s
    ELSE IF s[Len(s)].ch = t[1].ch
         THEN SubSeq(s, 1, Len(s) - 1)
              \o <<[ch |-> t[1].ch, n |-> s[Len(s)].n + t[1].n]>>
              \o Tail(t)
         ELSE s \o t

\* s.length
RECURSIVE Length(_)
Length(s) == IF s = <<>> THEN 0 ELSE Head(s).n + Length(Tail(s))

\* s.substring(a, b) for a <= b: the characters at the 0-based positions
\* a .. b - 1, both clamped to 0 .. s.length
RECURSIVE Substring(_, _, _)
Substring(s, a, b) ==
    IF s = <<>> \/ b <= 0 THEN <<>>
    ELSE LET r == Head(s)
             from == Min(Max(a, 0), r.n)
             to == Min(b, r.n)
         IN Run(r.ch, to - from) \o Substring(Tail(s), a - r.n, b - r.n)

Digit(d) ==
    CASE d = 0 -> "0" [] d = 1 -> "1" [] d = 2 -> "2" [] d = 3 -> "3"
      [] d = 4 -> "4" [] d = 5 -> "5" [] d = 6 -> "6" [] d = 7 -> "7"
      [] d = 8 -> "8" [] d = 9 -> "9" [] d = 10 -> "a" [] d = 11 -> "b"
      [] d = 12 -> "c" [] d = 13 -> "d" [] d = 14 -> "e" [] d = 15 -> "f"
      [] d = 16 -> "g" [] d = 17 -> "h" [] d = 18 -> "i" [] d = 19 -> "j"
      [] d = 20 -> "k" [] d = 21 -> "l" [] d = 22 -> "m" [] d = 23 -> "n"
      [] d = 24 -> "o" [] d = 25 -> "p" [] d = 26 -> "q" [] d = 27 -> "r"
      [] d = 28 -> "s" [] d = 29 -> "t" [] d = 30 -> "u" [] d = 31 -> "v"
      [] d = 32 -> "w" [] d = 33 -> "x" [] d = 34 -> "y" [] d = 35 -> "z"

\* n.toString(radix) for n >= 0
RECURSIVE NumberToString(_, _)
NumberToString(n, radix) ==
    IF n < radix THEN Run(Digit(n), 1)
    ELSE Concat(NumberToString(n \div radix, radix), Run(Digit(n % radix), 1))

\* Math.abs(hash).toString(36) for a 32-bit hash; the absolute value of
\* -2^31 does not fit 32 bits, so the last digit is split off first.
AbsToString36(hash) ==
    IF hash >= 0 THEN NumberToString(hash, 36)
    ELSE LET d == (36 - (hash % 36)) % 36
             q == (0 - (hash + d)) \div 36
         IN IF q = 0 THEN Run(Digit(d), 1)
            ELSE Concat(NumberToString(q, 36), Run(Digit(d), 1))

\* charCodeAt of the characters of a base64 payload and of its length
CharCode(ch) ==
    CASE ch = "A" -> 65 [] ch = "B" -> 66
      [] ch = "0" -> 48 [] ch = "1" -> 49 [] ch = "2" -> 50 [] ch = "3" -> 51
      [] ch = "4" -> 52 [] ch = "5" -> 53 [] ch = "6" -> 54 [] ch = "7" -> 55
      [] ch = "8" -> 56 [] ch = "9" -> 57

\* hash = ((hash << 5) - hash) + char; hash = hash & hash: 31 * hash + char
\* in 32-bit two's complement, computed on the two 16-bit halves.
HashStep(hash, char) ==
    LET lo == hash % 65536
        hi == (hash \div 65536) % 65536
        t == 31 * lo + char
        lo2 == t % 65536
        hi2 == (31 * hi + (t \div 65536)) % 65536
    IN IF hi2 >= 32768 THEN (hi2 - 65536) * 65536 + lo2 ELSE hi2 * 65536 + lo2

\* The loop of the fallback over n equal characters: the first half of the
\* iterations, then the rest from the value they leave
RECURSIVE HashRun(_, _, _)
HashRun(hash, char, n) ==
    IF n = 0 THEN hash
    ELSE IF n = 1 THEN HashStep(hash, char)
    ELSE LET half == HashRun(hash, char, n \div 2)
         IN IF half \in Int THEN HashRun(half, char, n - (n \div 2)) ELSE hash

\* The loop of the fallback over the text combined
RECURSIVE HashLoop(_, _)
HashLoop(hash, combined) ==
    IF combined = <<>> THEN hash
    ELSE HashLoop(HashRun(hash, CharCode(Head(combined).ch), Head(combined).n),
                  Tail(combined))

\* A hash text: its length and its characters.
generateImageHashFallback(base64) ==
    LET len == Length(base64)
        sample1 == Substring(base64, 0, Min(500, len))
        sample2 == IF len > 1000
                   THEN Substring(base64, len \div 2, (len \div 2) + 500)
                   ELSE <<>>
        sample3 == IF len > 1500 THEN Substring(base64, len - 500, len) ELSE <<>>
        combined == Concat(Concat(Concat(sample1, sample2), sample3),
                           NumberToString(len, 10))
        text == AbsToString36(HashLoop(0, combined))
    IN [length |-> Length(text), chars |-> text]

\* The first 16 hex characters of the SHA-256 digest of data. SHA-256 is
\* taken to be free of collisions: the 16 characters stand for the data
\* digested, different data for different characters.
Sha256Hex16(data) == [length |-> 16, chars |-> data]

\* generateImageHash(base64); digestResolves: crypto.subtle.digest resolves,
\* otherwise it throws or rejects and the catch takes the fallback.
generateImageHash(base64, digestResolves) ==
    IF digestResolves
    THEN LET sample == Substring(base64, 0, Min(10000, Length(base64)))
             data == Concat(sample, NumberToString(Length(base64), 10))
         IN Sha256Hex16(data)
    ELSE generateImageHashFallback(base64)

\* base64Raw '' before a photo is chosen
NoPayload == <<>>

\* A payload of n characters "A", with "B" at the 1-based position at
\* (none when at = 0)
Payload(n, at) ==
    IF at = 0 THEN Run("A", n)
    ELSE Concat(Concat(Run("A", at - 1), Run("B", 1)), Run("A", n - at))

\* Lengths of payloads: below and above each sampling threshold
PayloadLengths == {100, 1200, 1600, 10000, 10050, 20000}

\* Positions of the one character that differs: none, the first, the middle,
\* the first of the last 100, the last
Marks(n) == {0, 1, n \div 2, n - 99, n}

\* Two payloads of the same length
PayloadPairs ==
    UNION {{<<Payload(n, ij[1]), Payload(n, ij[2])>> :
                ij \in {x \in Marks(n) \X Marks(n) : x[1] <= x[2]}} :
           n \in PayloadLengths}

----------------------------------------------------------------------------
\* The state after the page has loaded
Loaded ==
    /\ now = 0
    /\ ls = <<>>
    /\ idb = <<>>
    /\ idbPending = <<>>
    /\ hasCheckedBackup = FALSE
    /\ initPc = "idle"
    /\ res = NoRes
    /\ flowPc = [f \in Flows |-> "idle"]
    /\ recLog = [day |-> 0, n |-> 0, at |-> 0]
    /\ envLog = [clears |-> 0, reloads |-> 0]
    /\ dbConnection = FALSE
    /\ store = [k \in Keys |-> <<>>]
    /\ memoryCache = [k \in Keys |-> <<>>]
    /\ calls = [c \in Calls |-> IdleCall]
    /\ resolved = [k \in Keys |-> <<>>]
    /\ nextVal = 1
    /\ deps = NoDeps
    /\ appState = "IDLE"
    /\ proc = [stage |-> "none", photo |-> 0]
    /\ visualizedImage = <<>>
    /\ loading = FALSE
    /\ error = ""
    /\ currentRequestRef = <<>>
    /\ timeoutId = <<>>
    /\ orphans = {}
    /\ reqs = <<>>
    /\ trigLog = <<>>
    /\ fired = {}
    /\ sinceTrigger = DEBOUNCE_MS
    /\ coordLog = [uploads |-> 0, resets |-> 0, resetMark |-> 0]
    /\ imgLog = [day |-> 0, seen |-> {}]
    /\ fault = "none"
    /\ clearPc = "idle"
    /\ cooldown = <<<<>>, <<>>>>
    /\ hashLog = <<>>

Init ==
    /\ Loaded
    /\ requestCounts = <<1, 1>>
    /\ payloads = <<NoPayload, NoPayload>>

(* The clock *)
TickSmall ==
    /\ (now % HOUR_MS) + TickMs <= MaxSub * TickMs
    /\ now' = now + TickMs
    /\ res' = NoRes
    /\ UNCHANGED <<ls, idb, idbPending, hasCheckedBackup, initPc, flowPc, recLog, envLog, imgLog, fault>>
    /\ UNCHANGED <<cacheVars, coordVars, pureVars>>

TickHour ==
    /\ now + HOUR_MS < MaxHours * HOUR_MS
    /\ now' = now + HOUR_MS
    /\ res' = NoRes
    /\ UNCHANGED <<ls, idb, idbPending, hasCheckedBackup, initPc, flowPc, recLog, envLog, imgLog, fault>>
    /\ UNCHANGED <<cacheVars, coordVars, pureVars>>

\* saveData without the mirror write.
saveData_noMirror(data, pending) ==
    IF fault \in {"write", "both"}
    THEN UNCHANGED <<ls, idbPending>>
    ELSE /\ ls' = <<data>>
         /\ UNCHANGED idbPending

\* saveData(data): the synchronous localStorage write and the start of the
\* asynchronous mirror write; pending is the queue of mirror writes so far.
\* When setItem throws, the catch skips the mirror write as well.
saveData(data, pending) ==
    IF fault \in {"write", "both"}
    THEN UNCHANGED <<ls, idbPending>>
    ELSE /\ ls' = <<data>>
         /\ idbPending' = Append(pending, data)

\* checkRateLimit(): getData (which saves) and the three checks
DoCheck ==
    /\ Len(Writes(idbPending)) + 1 <= MaxPending
    /\ LET data == getData(ls, now) IN
        /\ saveData(data, idbPending)
        /\ res' = checkResult(data, now)

\* recordVisualization(): getData (which saves), the increments, saveData.
\* The mirror write getData started holds the object that is then mutated:
\* its put, made in a later task, stores the recorded data as well.
DoRecord ==
    /\ Len(Writes(idbPending)) + 2 <= MaxPending
    /\ LET data == getData(ls, now)
           rec == recordedData(data, now) IN
        /\ data.daily.count < MaxCount
        /\ saveData(rec, Append(idbPending, rec))
        /\ res' = [op |-> "record"]
    /\ recLog' = [day |-> getTodayString(now),
                  n |-> IF recLog.day = getTodayString(now) THEN recLog.n + 1 ELSE 1,
                  at |-> now]

\* data.images.includes(imageHash)
Includes(images, imageHash) == \E i \in 1..Len(images) : images[i] = imageHash

\* recordImageUpload counting a repeated hash as a new image.
uploaded_countRepeats(data, imageHash) ==
    IF Len(data.images) >= MAX_UNIQUE_IMAGES_PER_DAY
    THEN [allowed |-> FALSE, reason |-> <<"You've uploaded", MAX_UNIQUE_IMAGES_PER_DAY>>,
          push |-> FALSE]
    ELSE [allowed |-> TRUE, reason |-> <<>>, push |-> TRUE]

\* recordImageUpload with the comparison of the cap off by one (> for >=).
uploaded_capStrict(data, imageHash) ==
    IF Includes(data.images, imageHash)
    THEN [allowed |-> TRUE, reason |-> <<>>, push |-> FALSE]
    ELSE IF Len(data.images) > MAX_UNIQUE_IMAGES_PER_DAY
    THEN [allowed |-> FALSE, reason |-> <<"You've uploaded", MAX_UNIQUE_IMAGES_PER_DAY>>,
          push |-> FALSE]
    ELSE [allowed |-> TRUE, reason |-> <<>>, push |-> TRUE]

\* The decision of recordImageUpload for the data getData returned: what it
\* returns, and whether it pushes imageHash and saves.
uploaded(data, imageHash) ==
    IF Includes(data.images, imageHash)
    THEN [allowed |-> TRUE, reason |-> <<>>, push |-> FALSE]
    ELSE IF Len(data.images) >= MAX_UNIQUE_IMAGES_PER_DAY
    THEN [allowed |-> FALSE, reason |-> <<"You've uploaded", MAX_UNIQUE_IMAGES_PER_DAY>>,
          push |-> FALSE]
    ELSE [allowed |-> TRUE, reason |-> <<>>, push |-> TRUE]

\* recordImageUpload(imageHash): getData (which saves), the decision, and for
\* a new image the push and saveData
RecordImageUpload(imageHash) ==
    /\ Len(Writes(idbPending)) + 2 <= MaxPending
    /\ LET data == getData(ls, now)
           u == uploaded(data, imageHash)
           rec == [data EXCEPT !.images = Append(@, imageHash)]
           today == getTodayString(now)
           seen == IF imgLog.day = today THEN imgLog.seen ELSE {}
       IN /\ IF u.push
             THEN saveData(rec, Append(idbPending, rec))
             ELSE saveData(data, idbPending)
          /\ res' = [op |-> "upload", imageHash |-> imageHash,
                     allowed |-> u.allowed, reason |-> u.reason]
          /\ imgLog' = [day |-> today,
                        seen |-> IF u.allowed THEN seen \cup {imageHash} ELSE seen]
    /\ UNCHANGED <<now, idb, hasCheckedBackup, initPc, flowPc, recLog, envLog, fault>>
    /\ UNCHANGED <<cacheVars, coordVars, pureVars>>

\* getRateLimitStatus(): getData (which saves) and the four numbers
GetRateLimitStatus ==
    /\ Len(Writes(idbPending)) + 1 <= MaxPending
    /\ LET data == getData(ls, now) IN
        /\ saveData(data, idbPending)
        /\ res' = [op |-> "status",
                   dailyRemaining |-> DAILY_VISUALIZATIONS - data.daily.count,
                   hourlyRemaining |-> HOURLY_VISUALIZATIONS - data.hourly.count,
                   cooldownUntil |-> data.cooldownUntil,
                   timeUntilDailyReset |-> getTimeUntilDailyReset(now)]
    /\ UNCHANGED <<now, idb, hasCheckedBackup, initPc, flowPc, recLog, envLog,
                   imgLog, fault>>
    /\ UNCHANGED <<cacheVars, coordVars, pureVars>>

\* localStorage starts or stops failing: getItem throws or returns a text
\* that does not parse ("read"), setItem throws ("write"), or both.
StorageFault(f) ==
    /\ f # fault
    /\ fault' = f
    /\ res' = NoRes
    /\ UNCHANGED <<now, ls, idb, idbPending, hasCheckedBackup, initPc, flowPc,
                   recLog, envLog, imgLog>>
    /\ UNCHANGED <<cacheVars, coordVars, pureVars>>

CheckRateLimit ==
    /\ DoCheck
    /\ UNCHANGED <<now, idb, hasCheckedBackup, initPc, flowPc, recLog, envLog, imgLog, fault>>
    /\ UNCHANGED <<cacheVars, coordVars, pureVars>>

RecordVisualization ==
    /\ DoRecord
    /\ UNCHANGED <<now, idb, hasCheckedBackup, initPc, flowPc, envLog, imgLog, fault>>
    /\ UNCHANGED <<cacheVars, coordVars, pureVars>>

(* A caller flow: checkRateLimit, and recordVisualization only once admitted *)
FlowCheck(f) ==
    /\ flowPc[f] = "idle"
    /\ DoCheck
    /\ flowPc' = [flowPc EXCEPT ![f] = IF res'.allowed THEN "admitted" ELSE "idle"]
    /\ UNCHANGED <<now, idb, hasCheckedBackup, initPc, recLog, envLog, imgLog, fault>>
    /\ UNCHANGED <<cacheVars, coordVars, pureVars>>

FlowRecord(f) ==
    /\ flowPc[f] = "admitted"
    /\ DoRecord
    /\ flowPc' = [flowPc EXCEPT ![f] = "idle"]
    /\ UNCHANGED <<now, idb, hasCheckedBackup, initPc, envLog, imgLog, fault>>
    /\ UNCHANGED <<cacheVars, coordVars, pureVars>>

(* saveToIDB: the put of the oldest pending mirror write commits *)
SaveToIDBDone ==
    /\ idbPending # <<>>
    /\ Head(idbPending) # BackupRead
    /\ idb' = <<Head(idbPending)>>
    /\ idbPending' = Tail(idbPending)
    /\ res' = NoRes
    /\ UNCHANGED <<now, ls, hasCheckedBackup, initPc, flowPc, recLog, envLog, imgLog, fault>>
    /\ UNCHANGED <<cacheVars, coordVars, pureVars>>

(* The user clears localStorage (or clearRateLimitData is called) *)
ClearPrimary ==
    /\ ls # <<>>
    /\ envLog.clears < MaxClears
    /\ ls' = <<>>
    /\ res' = NoRes
    /\ envLog' = [envLog EXCEPT !.clears = @ + 1]
    /\ UNCHANGED <<now, idb, idbPending, hasCheckedBackup, initPc, flowPc, recLog, imgLog, fault>>
    /\ UNCHANGED <<cacheVars, coordVars, pureVars>>

(* The page is reloaded: module state is fresh, the two stores persist *)
Reload ==
    /\ envLog.reloads < MaxReloads
    /\ envLog' = [envLog EXCEPT !.reloads = @ + 1]
    /\ hasCheckedBackup' = FALSE
    /\ initPc' = "idle"
    /\ flowPc' = [f \in Flows |-> "idle"]
    /\ idbPending' = Writes(idbPending)   \* nobody waits for the read any more
    /\ res' = NoRes
    /\ UNCHANGED <<now, ls, idb, recLog, imgLog, fault>>
    /\ UNCHANGED <<cacheVars, coordVars, pureVars>>

(* initRateLimiter(), up to the await of loadFromIDB *)
InitRateLimiter ==
    /\ initPc = "idle"
    /\ ~hasCheckedBackup
    /\ hasCheckedBackup' = TRUE
    /\ IF loadData(ls) = <<>>
       THEN /\ initPc' = "loading"
            /\ idbPending' = Append(idbPending, BackupRead)
       ELSE /\ initPc' = "done"
            /\ UNCHANGED idbPending
    /\ res' = NoRes
    /\ UNCHANGED <<now, ls, idb, flowPc, recLog, envLog, imgLog, fault>>
    /\ UNCHANGED <<cacheVars, coordVars, pureVars>>

(* initRateLimiter(), from the read of the backup to its end: the get of
   loadFromIDB is served after the mirror writes started before it, and
   saveData(backupData) follows in the same task *)
InitRestore ==
    /\ initPc = "loading"
    /\ idbPending # <<>>
    /\ Head(idbPending) = BackupRead
    /\ initPc' = "done"
    /\ IF idb # <<>> /\ fault \notin {"write", "both"}
       THEN saveData(idb[1], Tail(idbPending))
       ELSE /\ idbPending' = Tail(idbPending)
            /\ UNCHANGED ls
    /\ res' = NoRes
    /\ UNCHANGED <<now, idb, hasCheckedBackup, flowPc, recLog, envLog, imgLog, fault>>
    /\ UNCHANGED <<cacheVars, coordVars, pureVars>>

----------------------------------------------------------------------------
(* The limiter called directly, in any order *)
NextRL ==
    \/ TickSmall
    \/ TickHour
    \/ CheckRateLimit
    \/ RecordVisualization
    \/ SaveToIDBDone

SpecRL == Init /\ [][NextRL]_vars

\* The clock advances to shortly before the boundary b of an hour window or
\* of a UTC day.
TickToEve(b) ==
    /\ now < b - MaxEve * TickMs
    /\ now' = b - MaxEve * TickMs
    /\ res' = NoRes
    /\ UNCHANGED <<ls, idb, idbPending, hasCheckedBackup, initPc, flowPc, recLog, envLog, imgLog, fault>>
    /\ UNCHANGED <<cacheVars, coordVars, pureVars>>

\* A few seconds pass, around the boundary b.
TickEve(b) ==
    /\ b - MaxEve * TickMs <= now
    /\ now + TickMs <= b + MaxEve * TickMs
    /\ now' = now + TickMs
    /\ res' = NoRes
    /\ UNCHANGED <<ls, idb, idbPending, hasCheckedBackup, initPc, flowPc, recLog, envLog, imgLog, fault>>
    /\ UNCHANGED <<cacheVars, coordVars, pureVars>>

\* Around the end of a UTC day
NextDayEnd ==
    \/ TickToEve(DAY_MS)
    \/ TickEve(DAY_MS)
    \/ CheckRateLimit
    \/ RecordVisualization
    \/ SaveToIDBDone

SpecDayEnd == Init /\ [][NextDayEnd]_vars

\* Around the end of an hour window
NextHourEnd ==
    \/ TickToEve(HOUR_MS)
    \/ TickEve(HOUR_MS)
    \/ CheckRateLimit
    \/ RecordVisualization
    \/ SaveToIDBDone

SpecHourEnd == Init /\ [][NextHourEnd]_vars

(* Uploads of photos around the end of a UTC day *)
NextImages ==
    \/ TickToEve(DAY_MS)
    \/ TickEve(DAY_MS)
    \/ \E h \in UploadHashes : RecordImageUpload(h)
    \/ SaveToIDBDone

SpecImages == Init /\ [][NextImages]_vars

(* The limiter with the two stores mirrored, around the end of a UTC day *)
NextMirror ==
    \/ TickToEve(DAY_MS)
    \/ TickEve(DAY_MS)
    \/ CheckRateLimit
    \/ RecordVisualization
    \/ \E h \in {<<"sha256", 1>>} : RecordImageUpload(h)
    \/ SaveToIDBDone

SpecMirror == Init /\ [][NextMirror]_vars

(* The four operations of the limiter around the end of the first hour     *)
(* window and around the end of the first UTC day                          *)
WindowRecord ==
    /\ recLog.day = getTodayString(now) => recLog.n < MaxWindowRecords
    /\ RecordVisualization

NextWindows ==
    \/ TickToEve(HOUR_MS)
    \/ TickEve(HOUR_MS)
    \/ TickToEve(DAY_MS)
    \/ TickEve(DAY_MS)
    \/ CheckRateLimit
    \/ WindowRecord
    \/ \E h \in {<<"sha256", 1>>} : RecordImageUpload(h)
    \/ GetRateLimitStatus
    \/ SaveToIDBDone

SpecWindows == Init /\ [][NextWindows]_vars

(* The limiter on a localStorage that fails *)
FaultRecord ==
    /\ recLog.n < MaxFaultRecords
    /\ RecordVisualization

NextFault ==
    \/ TickSmall
    \/ CheckRateLimit
    \/ FaultRecord
    \/ \E h \in {<<"sha256", 1>>} : RecordImageUpload(h)
    \/ GetRateLimitStatus
    \/ \E f \in Faults : StorageFault(f)
    \/ SaveToIDBDone

SpecFault == Init /\ [][NextFault]_vars

(* calculateCooldown on its own, for two request counts n1 < n2 *)
InitCooldown ==
    /\ Loaded
    /\ requestCounts \in {nn \in (1..MaxRequestCount) \X (1..MaxRequestCount) :
                            nn[1] < nn[2]}
    /\ payloads = <<NoPayload, NoPayload>>

CalculateCooldown(i) ==
    /\ cooldown[i] = <<>>
    /\ cooldown' = [cooldown EXCEPT ![i] = <<calculateCooldown(requestCounts[i])>>]
    /\ UNCHANGED <<now, rlVars, cacheVars, coordVars, requestCounts, payloads,
                   hashLog>>

NextCooldown == \E i \in {1, 2} : CalculateCooldown(i)

SpecCooldown == InitCooldown /\ [][NextCooldown]_vars

(* generateImageHash on its own, for two payloads of the same length; each *)
(* call finds crypto.subtle.digest resolving or failing.                   *)
InitHash ==
    /\ Loaded
    /\ requestCounts = <<1, 1>>
    /\ payloads \in PayloadPairs

GenerateImageHash(i, digestResolves) ==
    /\ Len(hashLog) < MaxHashCalls
    /\ hashLog' = Append(hashLog,
                         [arg |-> i, crypto |-> digestResolves,
                          hash |-> generateImageHash(payloads[i], digestResolves)])
    /\ UNCHANGED <<now, rlVars, cacheVars, coordVars, requestCounts, cooldown,
                   payloads>>

NextHash == \E i \in {1, 2}, digestResolves \in BOOLEAN :
                GenerateImageHash(i, digestResolves)

SpecHash == InitHash /\ [][NextHash]_vars

(* Caller flows that record only after their own admission *)
NextFlows ==
    \/ TickSmall
    \/ TickHour
    \/ \E f \in Flows : FlowCheck(f)
    \/ \E f \in Flows : FlowRecord(f)
    \/ SaveToIDBDone

SpecFlows == Init /\ [][NextFlows]_vars

(* The two stores: clearing, reload and the start-up restore *)
NextBackup ==
    \/ TickSmall
    \/ CheckRateLimit
    \/ RecordVisualization
    \/ SaveToIDBDone
    \/ ClearPrimary
    \/ Reload
    \/ InitRateLimiter
    \/ InitRestore

SpecBackup == Init /\ [][NextBackup]_vars

----------------------------------------------------------------------------
(* ImageCache.getOrSet, one action per stretch between two awaits *)

\* A fetcher gets as far as its remote call: always for a plain fetcher; the
\* fetcher of performVisualization first compares its requestId with
\* currentRequestRef.current and throws 'Request cancelled' when they differ.
\* A fetcher that goes on to its remote call without comparing its requestId
FetcherProceeds_unchecked(c) ==
    \/ calls[c].owner = 0
    \/ calls[c].owner \in 1..Len(reqs)

FetcherProceeds(c) ==
    \/ calls[c].owner = 0
    \/ currentRequestRef = <<reqs[calls[c].owner].id>>

\* catch of getOrSet followed by getOrSetMemory, up to its await: the call
\* record after the memory lookup and, on a miss, the invocation of fetcher.
Fallback(rec, proceeds) ==
    IF Live(memoryCache[rec.key], now)
    THEN [rec EXCEPT !.pc = "done", !.out = <<memoryCache[rec.key][1].value>>,
                     !.ts = memoryCache[rec.key][1].timestamp, !.err = TRUE]
    ELSE IF proceeds
         THEN [rec EXCEPT !.pc = "memfetch", !.fetches = @ + 1, !.err = TRUE]
         ELSE [rec EXCEPT !.pc = "cancelled", !.fetches = @ + 1, !.err = TRUE]

\* The history of resolved values, after call record rec was written.
Resolve(rec) ==
    IF rec.pc = "done"
    THEN [resolved EXCEPT ![rec.key] = <<[value |-> rec.out[1], timestamp |-> rec.ts]>>]
    ELSE resolved

\* React renders with the new state: when a dependency of performVisualization
\* changed, useCallback and useMemo make a new debounced function, and the
\* timer of the old one (cur) keeps running with the old closure.
Render(newDeps, cur, old) ==
    /\ deps' = newDeps
    /\ IF newDeps # deps
       THEN /\ timeoutId' = <<>>
            /\ orphans' = old \cup {cur[i] : i \in 1..Len(cur)}
       ELSE /\ timeoutId' = cur
            /\ orphans' = old

\* Continue with a rollback and an error also for a failure that is not current
Continue_rollbackAlways(rec) ==
    LET r == rec.owner
        isCurrent == currentRequestRef = <<reqs[r].id>>
    IN
    /\ UNCHANGED <<appState, proc, currentRequestRef, trigLog, fired,
                   sinceTrigger, coordLog>>
    /\ IF rec.pc = "done" THEN
          IF ~isCurrent THEN
              /\ reqs' = [reqs EXCEPT ![r].status = "stale"]
              /\ UNCHANGED <<deps, timeoutId, orphans, visualizedImage, loading, error>>
          ELSE IF ~ValidArtifact(rec.out[1]) THEN
              /\ reqs' = [reqs EXCEPT ![r].status = "invalid"]
              /\ error' = "Invalid visualization result"
              /\ loading' = FALSE
              /\ UNCHANGED <<deps, timeoutId, orphans, visualizedImage>>
          ELSE
              /\ reqs' = [reqs EXCEPT ![r].status = "applied"]
              /\ visualizedImage' = <<[value |-> rec.out[1], req |-> r,
                                       trig |-> reqs[r].trig]>>
              /\ loading' = FALSE
              /\ UNCHANGED <<deps, timeoutId, orphans, error>>
       ELSE IF rec.pc = "cancelled" THEN
              /\ reqs' = [reqs EXCEPT ![r].status = "cancelled"]
              /\ loading' = IF isCurrent THEN FALSE ELSE loading
              /\ UNCHANGED <<deps, timeoutId, orphans, visualizedImage, error>>
       ELSE IF isCurrent THEN
              /\ reqs' = [reqs EXCEPT ![r].status = "failed"]
              /\ Render([deps EXCEPT !.visualizationCount = @ - 1], timeoutId, orphans)
              /\ error' = "Could not generate visualization"
              /\ loading' = FALSE
              /\ UNCHANGED visualizedImage
       ELSE
              /\ reqs' = [reqs EXCEPT ![r].status = "dropped"]
              /\ Render([deps EXCEPT !.visualizationCount = @ - 1], timeoutId, orphans)
              /\ error' = "Could not generate visualization"
              /\ UNCHANGED <<visualizedImage, loading>>

\* performVisualization after await ImageCache.getOrSet(...): lines 576-610,
\* for the settled call record rec of request rec.owner.
Continue(rec) ==
    LET r == rec.owner
        isCurrent == currentRequestRef = <<reqs[r].id>>
    IN
    /\ UNCHANGED <<appState, proc, currentRequestRef, trigLog, fired,
                   sinceTrigger, coordLog>>
    /\ IF rec.pc = "done" THEN
          IF ~isCurrent THEN
              /\ reqs' = [reqs EXCEPT ![r].status = "stale"]
              /\ UNCHANGED <<deps, timeoutId, orphans, visualizedImage, loading, error>>
          ELSE IF ~ValidArtifact(rec.out[1]) THEN
              /\ reqs' = [reqs EXCEPT ![r].status = "invalid"]
              /\ error' = "Invalid visualization result"
              /\ loading' = FALSE
              /\ UNCHANGED <<deps, timeoutId, orphans, visualizedImage>>
          ELSE
              /\ reqs' = [reqs EXCEPT ![r].status = "applied"]
              /\ visualizedImage' = <<[value |-> rec.out[1], req |-> r,
                                       trig |-> reqs[r].trig]>>
              /\ loading' = FALSE
              /\ UNCHANGED <<deps, timeoutId, orphans, error>>
       ELSE IF rec.pc = "cancelled" THEN
              /\ reqs' = [reqs EXCEPT ![r].status = "cancelled"]
              /\ loading' = IF isCurrent THEN FALSE ELSE loading
              /\ UNCHANGED <<deps, timeoutId, orphans, visualizedImage, error>>
       ELSE IF isCurrent THEN
              /\ reqs' = [reqs EXCEPT ![r].status = "failed"]
              /\ Render([deps EXCEPT !.visualizationCount = @ - 1], timeoutId, orphans)
              /\ error' = "Could not generate visualization"
              /\ loading' = FALSE
              /\ UNCHANGED visualizedImage
       ELSE
              /\ reqs' = [reqs EXCEPT ![r].status = "dropped"]
              /\ UNCHANGED <<deps, timeoutId, orphans, visualizedImage, loading, error>>

\* The call record rec replaces that of slot c; a settled call of the
\* coordinator returns into performVisualization in the same task.
Commit(c, rec) ==
    /\ resolved' = Resolve(rec)
    /\ IF rec.owner # 0 /\ rec.pc \in {"done", "failed", "cancelled"}
       THEN /\ calls' = [calls EXCEPT ![c] = IdleCall]
            /\ Continue(rec)
       ELSE /\ calls' = [calls EXCEPT ![c] = rec]
            /\ UNCHANGED coordVars

\* getOrSet(key, fetcher) is called by a plain caller; it awaits getDB(),
\* which returns the kept connection or, when there is none, awaits initDB().
GetOrSet(c, k) ==
    /\ calls[c].pc = "idle"
    /\ calls' = [calls EXCEPT ![c] = [IdleCall EXCEPT !.pc = "open", !.key = k,
                                                      !.prior = resolved[k],
                                                      !.reopen = ~dbConnection]]
    /\ UNCHANGED <<now, rlVars, pureVars, clearPc, dbConnection, store, memoryCache, resolved, nextVal>>
    /\ UNCHANGED coordVars

\* getDB() returns a connection (the kept one, or a new one of initDB, which
\* is kept from now on), the transaction is opened and store.get(key) is
\* requested.
OpenDone(c) ==
    /\ calls[c].pc = "open"
    /\ dbConnection' = IF calls[c].reopen THEN TRUE ELSE dbConnection
    /\ Commit(c, [calls[c] EXCEPT !.pc = "read", !.reopen = FALSE])
    /\ UNCHANGED <<now, rlVars, pureVars, clearPc, store, memoryCache, nextVal>>

\* initDB() rejects or db.transaction throws: catch, memory cache.
OpenFail(c) ==
    /\ calls[c].pc = "open"
    /\ dbConnection' = FALSE
    /\ Commit(c, Fallback([calls[c] EXCEPT !.reopen = FALSE], FetcherProceeds(c)))
    /\ UNCHANGED <<now, rlVars, pureVars, clearPc, store, memoryCache, nextVal>>

\* request.onsuccess of store.get: a live entry is returned; an expired one is
\* deleted; on a miss fetcher() is invoked.
ReadDone(c) ==
    /\ calls[c].pc = "read"
    /\ LET k == calls[c].key
           data == store[k]
       IN IF Live(data, now)
          THEN /\ Commit(c, [calls[c] EXCEPT !.pc = "done", !.out = <<data[1].value>>,
                                             !.ts = data[1].timestamp])
               /\ UNCHANGED <<store, dbConnection>>
          ELSE /\ store' = [store EXCEPT ![k] = <<>>]
               /\ IF FetcherProceeds(c)
                  THEN /\ Commit(c, [calls[c] EXCEPT !.pc = "fetch", !.fetches = @ + 1])
                       /\ UNCHANGED dbConnection
                  ELSE /\ Commit(c, Fallback([calls[c] EXCEPT !.fetches = @ + 1], FALSE))
                       /\ dbConnection' = FALSE
    /\ UNCHANGED <<now, rlVars, pureVars, clearPc, memoryCache, nextVal>>

\* request.onerror of store.get: resolve(null), a miss without a delete. The
\* error event goes on to the connection, whose onerror handler (set by
\* getDB) discards the kept connection.
ReadError(c) ==
    /\ calls[c].pc = "read"
    /\ dbConnection' = FALSE
    /\ IF FetcherProceeds(c)
       THEN Commit(c, [calls[c] EXCEPT !.pc = "fetch", !.fetches = @ + 1])
       ELSE Commit(c, Fallback([calls[c] EXCEPT !.fetches = @ + 1], FALSE))
    /\ UNCHANGED <<now, rlVars, pureVars, clearPc, store, memoryCache, nextVal>>

\* The remote call of the fetcher invoked at line 92 resolves. A plain fetcher
\* returns the artifact and store.put is requested; the fetcher of
\* performVisualization compares its requestId again and throws when it is no
\* longer current, which the catch of getOrSet takes for a store failure.
FetchResolve(c, ok) ==
    /\ calls[c].pc = "fetch"
    /\ calls[c].owner = 0 => ok
    /\ nextVal <= MaxFetches
    /\ nextVal' = nextVal + 1
    /\ IF FetcherProceeds(c)
       THEN /\ Commit(c, [calls[c] EXCEPT !.pc = "put",
                                          !.val = IF ok THEN nextVal ELSE -nextVal])
            /\ UNCHANGED dbConnection
       ELSE /\ Commit(c, Fallback(calls[c], FALSE))
            /\ dbConnection' = FALSE
    /\ UNCHANGED <<now, rlVars, pureVars, clearPc, store, memoryCache>>

\* The fetcher invoked at line 92 rejects: the catch of getOrSet takes it for
\* a store failure and getOrSetMemory invokes the fetcher again.
FetchReject(c) ==
    /\ calls[c].pc = "fetch"
    /\ dbConnection' = FALSE
    /\ Commit(c, Fallback([calls[c] EXCEPT !.rejected = @ + 1], FetcherProceeds(c)))
    /\ UNCHANGED <<now, rlVars, pureVars, clearPc, store, memoryCache, nextVal>>

\* request.onsuccess of store.put
PutDone(c) ==
    /\ calls[c].pc = "put"
    /\ store' = [store EXCEPT ![calls[c].key] =
                    <<[value |-> calls[c].val, timestamp |-> now]>>]
    /\ Commit(c, [calls[c] EXCEPT !.pc = "done", !.out = <<calls[c].val>>,
                                  !.ts = now])
    /\ UNCHANGED <<now, rlVars, pureVars, clearPc, dbConnection, memoryCache, nextVal>>

\* store.put throws or request.onerror fires: catch, memory cache.
PutFail(c) ==
    /\ calls[c].pc = "put"
    /\ dbConnection' = FALSE
    /\ Commit(c, Fallback(calls[c], FetcherProceeds(c)))
    /\ UNCHANGED <<now, rlVars, pureVars, clearPc, store, memoryCache, nextVal>>

\* The remote call of the fetcher invoked by getOrSetMemory resolves:
\* memoryCache.set and return, unless the fetcher of performVisualization
\* finds its requestId no longer current and throws.
MemFetchResolve(c, ok) ==
    /\ calls[c].pc = "memfetch"
    /\ calls[c].owner = 0 => ok
    /\ nextVal <= MaxFetches
    /\ nextVal' = nextVal + 1
    /\ LET v == IF ok THEN nextVal ELSE -nextVal IN
       IF FetcherProceeds(c)
       THEN /\ memoryCache' = [memoryCache EXCEPT ![calls[c].key] =
                                  <<[value |-> v, timestamp |-> now]>>]
            /\ Commit(c, [calls[c] EXCEPT !.pc = "done", !.val = v,
                                          !.out = <<v>>, !.ts = now])
       ELSE /\ Commit(c, [calls[c] EXCEPT !.pc = "cancelled"])
            /\ UNCHANGED memoryCache
    /\ UNCHANGED <<now, rlVars, pureVars, clearPc, dbConnection, store>>

\* The fetcher invoked by getOrSetMemory rejects: getOrSet rejects.
MemFetchReject(c) ==
    /\ calls[c].pc = "memfetch"
    /\ Commit(c, [calls[c] EXCEPT !.pc = "failed", !.rejected = @ + 1])
    /\ UNCHANGED <<now, rlVars, pureVars, clearPc, dbConnection, store, memoryCache, nextVal>>

\* The plain caller has taken the outcome; the slot is free for another call.
CallReturn(c) ==
    /\ calls[c].pc \in {"done", "failed", "cancelled"}
    /\ calls' = [calls EXCEPT ![c] = IdleCall]
    /\ UNCHANGED <<now, rlVars, pureVars, clearPc, dbConnection, store, memoryCache, resolved, nextVal>>
    /\ UNCHANGED coordVars

\* Half of the time-to-live passes.
TickHalfTTL ==
    /\ now + (TTL \div 2) <= MaxCacheTicks * (TTL \div 2)
    /\ now' = now + (TTL \div 2)
    /\ UNCHANGED <<rlVars, cacheVars, coordVars, pureVars>>

NextCache ==
    \/ \E c \in Calls, k \in ClientKeys : GetOrSet(c, k)
    \/ \E c \in Calls : OpenDone(c)
    \/ \E c \in Calls : OpenFail(c)
    \/ \E c \in Calls : ReadDone(c)
    \/ \E c \in Calls : ReadError(c)
    \/ \E c \in Calls : FetchResolve(c, TRUE)
    \/ \E c \in Calls : FetchReject(c)
    \/ \E c \in Calls : PutDone(c)
    \/ \E c \in Calls : PutFail(c)
    \/ \E c \in Calls : MemFetchResolve(c, TRUE)
    \/ \E c \in Calls : MemFetchReject(c)
    \/ \E c \in Calls : CallReturn(c)
    \/ TickHalfTTL

SpecCache == Init /\ [][NextCache]_vars

(* ImageCache.clear *)

\* clear() is called; it awaits initDB().
ClearCall ==
    /\ clearPc = "idle"
    /\ clearPc' = "open"
    /\ UNCHANGED <<now, rlVars, pureVars, coordVars, dbConnection, store,
                   memoryCache, calls, resolved, nextVal>>

\* initDB() resolves with a connection of its own; the transaction is opened
\* and store.clear() is requested.
ClearOpened ==
    /\ clearPc = "open"
    /\ clearPc' = "clearing"
    /\ UNCHANGED <<now, rlVars, pureVars, coordVars, dbConnection, store,
                   memoryCache, calls, resolved, nextVal>>

\* initDB() rejects or db.transaction throws: the catch warns, clear resolves.
ClearOpenFail ==
    /\ clearPc = "open"
    /\ clearPc' = "openFailed"
    /\ UNCHANGED <<now, rlVars, pureVars, coordVars, dbConnection, store,
                   memoryCache, calls, resolved, nextVal>>

\* request.onsuccess of store.clear, served after the requests of the
\* transactions opened before it; then memoryCache.clear(), and clear resolves.
ClearDone ==
    /\ clearPc = "clearing"
    /\ \A c \in Calls : calls[c].pc \notin {"read", "put"}
    /\ store' = [k \in Keys |-> <<>>]
    /\ memoryCache' = [k \in Keys |-> <<>>]
    /\ clearPc' = "cleared"
    /\ UNCHANGED <<now, rlVars, pureVars, coordVars, dbConnection, calls,
                   resolved, nextVal>>

\* request.onerror of store.clear: the promise rejects, the catch warns,
\* clear resolves.
ClearFail ==
    /\ clearPc = "clearing"
    /\ clearPc' = "clearFailed"
    /\ UNCHANGED <<now, rlVars, pureVars, coordVars, dbConnection, store,
                   memoryCache, calls, resolved, nextVal>>

\* The caller of clear() goes on.
ClearReturn ==
    /\ clearPc \in {"cleared", "openFailed", "clearFailed"}
    /\ clearPc' = "idle"
    /\ UNCHANGED <<now, rlVars, pureVars, coordVars, dbConnection, store,
                   memoryCache, calls, resolved, nextVal>>

(* getOrSet calls on one key and clear calls *)
NextClear ==
    \/ \E c \in Calls, k \in {CHOOSE k \in ClientKeys : TRUE} : GetOrSet(c, k)
    \/ \E c \in Calls : OpenDone(c)
    \/ \E c \in Calls : OpenFail(c)
    \/ \E c \in Calls : ReadDone(c)
    \/ \E c \in Calls : FetchResolve(c, TRUE)
    \/ \E c \in Calls : PutDone(c)
    \/ \E c \in Calls : MemFetchResolve(c, TRUE)
    \/ \E c \in Calls : CallReturn(c)
    \/ ClearCall
    \/ ClearOpened
    \/ ClearOpenFail
    \/ ClearDone
    \/ ClearFail
    \/ ClearReturn

SpecClear == Init /\ [][NextClear]_vars

(* getOrSet calls whose reads succeed, over the time-to-live *)
NextExpiry ==
    \/ \E c \in Calls, k \in ClientKeys : GetOrSet(c, k)
    \/ \E c \in Calls : OpenDone(c)
    \/ \E c \in Calls : OpenFail(c)
    \/ \E c \in Calls : ReadDone(c)
    \/ \E c \in Calls : FetchResolve(c, TRUE)
    \/ \E c \in Calls : FetchReject(c)
    \/ \E c \in Calls : PutDone(c)
    \/ \E c \in Calls : PutFail(c)
    \/ \E c \in Calls : MemFetchResolve(c, TRUE)
    \/ \E c \in Calls : MemFetchReject(c)
    \/ \E c \in Calls : CallReturn(c)
    \/ TickHalfTTL

SpecExpiry == Init /\ [][NextExpiry]_vars

(* getOrSet calls on one key, with every failure of the store and of the   *)
(* fetcher, at one time                                                     *)
NextConn ==
    \/ \E c \in Calls, k \in {CHOOSE k \in ClientKeys : TRUE} : GetOrSet(c, k)
    \/ \E c \in Calls : OpenDone(c)
    \/ \E c \in Calls : OpenFail(c)
    \/ \E c \in Calls : ReadDone(c)
    \/ \E c \in Calls : ReadError(c)
    \/ \E c \in Calls : FetchResolve(c, TRUE)
    \/ \E c \in Calls : FetchReject(c)
    \/ \E c \in Calls : PutDone(c)
    \/ \E c \in Calls : PutFail(c)
    \/ \E c \in Calls : MemFetchResolve(c, TRUE)
    \/ \E c \in Calls : MemFetchReject(c)
    \/ \E c \in Calls : CallReturn(c)

SpecConn == Init /\ [][NextConn]_vars

----------------------------------------------------------------------------
(* The coordinator: App.tsx and lib/debounce.ts *)

Timers == {timeoutId[i] : i \in 1..Len(timeoutId)} \cup orphans

NoTimerDue == \A tm \in Timers : tm.left > 0

\* handleImageSelected after validation and compression, and processImage up
\* to its first await; reader.onload shows the visualizer.
ProcessImage(p) ==
    /\ appState = "IDLE"
    /\ proc.stage = "none"
    /\ coordLog.uploads < MaxUploads
    /\ p <= coordLog.uploads + 1      \* photos are numbered in order of first use
    /\ Render([deps EXCEPT !.base64Raw = p, !.analysisResult = FALSE,
                           !.visualizationCount = 0], timeoutId, orphans)
    /\ visualizedImage' = <<>>
    /\ currentRequestRef' = <<>>
    /\ error' = ""
    /\ loading' = TRUE
    /\ appState' = "VISUALIZING"
    /\ proc' = [stage |-> "hashing", photo |-> p]
    /\ coordLog' = [coordLog EXCEPT !.uploads = @ + 1, !.resetMark = Len(trigLog)]
    /\ sinceTrigger' = DEBOUNCE_MS     \* a burst does not span two sessions
    /\ UNCHANGED <<reqs, trigLog, fired>>
    /\ UNCHANGED <<now, rlVars, cacheVars, pureVars>>

\* processImage: generateImageHash resolved, setImageHash(hash)
HashDone ==
    /\ proc.stage = "hashing"
    /\ Render([deps EXCEPT !.imageHash = ImageHash(proc.photo)], timeoutId, orphans)
    /\ proc' = [proc EXCEPT !.stage = "analyzing"]
    /\ UNCHANGED <<appState, visualizedImage, loading, error, currentRequestRef,
                   reqs, trigLog, fired, sinceTrigger, coordLog>>
    /\ UNCHANGED <<now, rlVars, cacheVars, pureVars>>

\* processImage: the analysis resolved, setAnalysisResult(analysis); finally
AnalysisDone ==
    /\ proc.stage = "analyzing"
    /\ Render([deps EXCEPT !.analysisResult = TRUE], timeoutId, orphans)
    /\ loading' = FALSE
    /\ proc' = [proc EXCEPT !.stage = "none"]
    /\ UNCHANGED <<appState, visualizedImage, error, currentRequestRef,
                   reqs, trigLog, fired, sinceTrigger, coordLog>>
    /\ UNCHANGED <<now, rlVars, cacheVars, pureVars>>

\* processImage: the analysis rejected; catch and finally
AnalysisFail ==
    /\ proc.stage = "analyzing"
    /\ error' = "Failed to analyze image"
    /\ loading' = FALSE
    /\ proc' = [proc EXCEPT !.stage = "none"]
    /\ UNCHANGED <<deps, timeoutId, orphans, appState, visualizedImage,
                   currentRequestRef, reqs, trigLog, fired, sinceTrigger, coordLog>>
    /\ UNCHANGED <<now, rlVars, cacheVars, pureVars>>

\* handleVisualize(colorName, colorHex) from a palette colour: the display is
\* cleared and the debounced function of this render (re)starts its timer.
HandleVisualize(colorHex) ==
    /\ appState = "VISUALIZING"
    /\ deps.analysisResult
    /\ Len(trigLog) < MaxTriggers
    /\ NoTimerDue
    /\ visualizedImage' = <<>>
    /\ timeoutId' = <<[color |-> colorHex, snap |-> deps, left |-> DEBOUNCE_MS,
                       trig |-> Len(trigLog) + 1]>>
    /\ trigLog' = Append(trigLog,
          [color |-> colorHex,
           burst |-> IF trigLog # <<>> /\ sinceTrigger < DEBOUNCE_MS
                     THEN trigLog[Len(trigLog)].burst
                     ELSE Len(trigLog) + 1])
    /\ sinceTrigger' = 0
    /\ UNCHANGED <<deps, orphans, appState, proc, loading, error,
                   currentRequestRef, reqs, fired, coordLog>>
    /\ UNCHANGED <<now, rlVars, cacheVars, pureVars>>

\* A debounce timer expires: performVisualization(colorName, colorHex) of the
\* render that made the debounced function runs up to the first await of
\* ImageCache.getOrSet, in call slot c.
TimerFire(c) ==
    \E tm \in Timers :
        /\ tm.left <= 0
        /\ calls[c].pc = "idle"
        /\ LET cur == SelectSeq(timeoutId, LAMBDA x : x # tm)
               old == orphans \ {tm}
               hex == NormalizeHex(tm.color)
               requestId == RequestId(tm.snap.imageHash, hex)
           IN
           /\ fired' = fired \cup {tm.trig}
           /\ IF tm.snap.base64Raw = 0 \/ tm.snap.imageHash = <<>> THEN
                 /\ timeoutId' = cur
                 /\ orphans' = old
                 /\ UNCHANGED <<deps, error, loading, currentRequestRef, reqs, calls>>
              ELSE IF tm.snap.visualizationCount >= MAX_VISUALIZATIONS THEN
                 /\ timeoutId' = cur
                 /\ orphans' = old
                 /\ error' = "You've reached the limit"
                 /\ UNCHANGED <<deps, loading, currentRequestRef, reqs, calls>>
              ELSE
                 /\ currentRequestRef' = <<requestId>>
                 /\ loading' = TRUE
                 /\ error' = ""
                 /\ Render([deps EXCEPT !.visualizationCount = @ + 1], cur, old)
                 /\ reqs' = Append(reqs, [id |-> requestId, trig |-> tm.trig,
                                          status |-> "inflight",
                                          before |-> deps.visualizationCount])
                 /\ calls' = [calls EXCEPT ![c] =
                       [IdleCall EXCEPT !.pc = "open",
                                        !.key = CacheKey(tm.snap.imageHash, hex),
                                        !.owner = Len(reqs) + 1,
                                        !.prior = resolved[CacheKey(tm.snap.imageHash, hex)],
                                        !.reopen = ~dbConnection]]
        /\ UNCHANGED <<appState, proc, visualizedImage, trigLog, sinceTrigger, coordLog>>
        /\ UNCHANGED <<now, rlVars, pureVars, clearPc, dbConnection, store, memoryCache, resolved, nextVal>>

\* handleReset
HandleReset ==
    /\ appState # "IDLE"
    /\ coordLog.resets < MaxResets
    /\ appState' = "IDLE"
    /\ visualizedImage' = <<>>
    /\ error' = ""
    /\ Render(NoDeps, timeoutId, orphans)
    /\ currentRequestRef' = <<>>
    /\ coordLog' = [coordLog EXCEPT !.resets = @ + 1, !.resetMark = Len(trigLog)]
    /\ sinceTrigger' = DEBOUNCE_MS     \* a burst does not span two sessions
    /\ UNCHANGED <<proc, loading, reqs, trigLog, fired>>
    /\ UNCHANGED <<now, rlVars, cacheVars, pureVars>>

\* Half of the debounce delay passes; a timer that is due fires first.
TimePasses ==
    /\ NoTimerDue
    /\ now' = now + CoordTickMs
    /\ timeoutId' = [i \in 1..Len(timeoutId) |->
                        [timeoutId[i] EXCEPT !.left = @ - CoordTickMs]]
    /\ orphans' = {[tm EXCEPT !.left = @ - CoordTickMs] : tm \in orphans}
    /\ sinceTrigger' = Min(DEBOUNCE_MS, sinceTrigger + CoordTickMs)
    /\ UNCHANGED <<deps, appState, proc, visualizedImage, loading, error,
                   currentRequestRef, reqs, trigLog, fired, coordLog>>
    /\ UNCHANGED <<rlVars, cacheVars, pureVars>>

CoordTick ==
    /\ now + CoordTickMs <= MaxCoordTicks * CoordTickMs
    /\ TimePasses

SessionTick ==
    /\ now + CoordTickMs <= MaxSessionTicks * CoordTickMs
    /\ TimePasses

ShortTick ==
    /\ now + CoordTickMs <= MaxShortTicks * CoordTickMs
    /\ TimePasses

NextCoord ==
    \/ \E p \in Photos : ProcessImage(p)
    \/ HashDone
    \/ AnalysisDone
    \/ AnalysisFail
    \/ \E x \in RawColors : HandleVisualize(x)
    \/ \E c \in Calls : TimerFire(c)
    \/ HandleReset
    \/ CoordTick
    \/ \E c \in Calls : OpenDone(c)
    \/ \E c \in Calls : OpenFail(c)
    \/ \E c \in Calls : ReadDone(c)
    \/ \E c \in Calls : ReadError(c)
    \/ \E c \in Calls : FetchResolve(c, TRUE)
    \/ \E c \in Calls : FetchReject(c)
    \/ \E c \in Calls : PutDone(c)
    \/ \E c \in Calls : PutFail(c)
    \/ \E c \in Calls : MemFetchResolve(c, TRUE)
    \/ \E c \in Calls : MemFetchReject(c)

SpecCoord == Init /\ [][NextCoord]_vars

\* One session: a photo is uploaded and analysed, colours are tried, the
\* remote service may return an artifact that fails the sanity check.
NextSession ==
    \/ ProcessImage(1)
    \/ HashDone
    \/ AnalysisDone
    \/ \E x \in RawColors : HandleVisualize(x)
    \/ \E c \in Calls : TimerFire(c)
    \/ SessionTick
    \/ \E c \in Calls : OpenDone(c)
    \/ \E c \in Calls : OpenFail(c)
    \/ \E c \in Calls : ReadDone(c)
    \/ \E c \in Calls : ReadError(c)
    \/ \E c \in Calls, ok \in BOOLEAN : FetchResolve(c, ok)
    \/ \E c \in Calls : FetchReject(c)
    \/ \E c \in Calls : PutDone(c)
    \/ \E c \in Calls : PutFail(c)
    \/ \E c \in Calls, ok \in BOOLEAN : MemFetchResolve(c, ok)
    \/ \E c \in Calls : MemFetchReject(c)

SpecSession == Init /\ [][NextSession]_vars

\* A short session: time for two requests.
NextShort ==
    \/ ProcessImage(1)
    \/ HashDone
    \/ AnalysisDone
    \/ \E x \in RawColors : HandleVisualize(x)
    \/ \E c \in Calls : TimerFire(c)
    \/ ShortTick
    \/ \E c \in Calls : OpenDone(c)
    \/ \E c \in Calls : OpenFail(c)
    \/ \E c \in Calls : ReadDone(c)
    \/ \E c \in Calls : ReadError(c)
    \/ \E c \in Calls, ok \in BOOLEAN : FetchResolve(c, ok)
    \/ \E c \in Calls : FetchReject(c)
    \/ \E c \in Calls : PutDone(c)
    \/ \E c \in Calls : PutFail(c)
    \/ \E c \in Calls, ok \in BOOLEAN : MemFetchResolve(c, ok)
    \/ \E c \in Calls : MemFetchReject(c)

SpecShort == Init /\ [][NextShort]_vars

----------------------------------------------------------------------------
(* Claims about the coordinator *)

\* C2: last request wins. For requests R1 and R2 dispatched in that order for
\* different colours of the same image, while R2's identity is the current
\* one the visualization on display is not the result of R1.
C2_LastRequestWins ==
    \A r1, r2 \in 1..Len(reqs) :
        (/\ r1 < r2
         /\ reqs[r1].id[1] = reqs[r2].id[1]
         /\ reqs[r1].id[2] # reqs[r2].id[2]
         /\ currentRequestRef = <<reqs[r2].id>>)
        => ~(visualizedImage # <<>> /\ visualizedImage[1].req = r1)

\* C8: a trigger clears the display, and until the request of that trigger or
\* of a later one succeeds the display stays empty: what is on display is the
\* result of the latest trigger, never the result that an earlier trigger
\* asked for another colour.
C8_DisplayOfLatestTrigger ==
    visualizedImage # <<>> =>
        \/ visualizedImage[1].trig = Len(trigLog)
        \/ NormalizeHex(trigLog[visualizedImage[1].trig].color)
              = NormalizeHex(trigLog[Len(trigLog)].color)

\* C9: after handleReset or the start of processing a new photo, no result of
\* a visualization triggered before it is on display in the visualizer.
C9_ResetInvalidates ==
    (appState = "VISUALIZING" /\ visualizedImage # <<>>)
        => visualizedImage[1].trig > coordLog.resetMark

\* C10: of a burst of triggers, each less than 300 ms after the previous one,
\* only the last reaches performVisualization: a trigger whose call was made
\* has no later trigger in its burst.
C10_OneCallPerBurst ==
    \A t \in fired : \A u \in 1..Len(trigLog) :
        trigLog[u].burst = trigLog[t].burst => u <= t

\* Request r leaves the in-flight state in this step.
Settles(r) == reqs[r].status = "inflight" /\ reqs'[r].status # "inflight"

\* C11 (as claimed): when the latest request of a session, whose identity is
\* the current one, fails, the error is surfaced and the count is back at
\* the value it had before the request was dispatched.
C11_RollbackRestoresCount ==
    [][ \A r \in 1..Len(reqs) :
          (r = Len(reqs) /\ Settles(r) /\ reqs'[r].status = "failed")
          => /\ error' # ""
             /\ deps'.visualizationCount = reqs[r].before ]_vars

\* C12: a request whose identity is not the current one when its cache call
\* completes or fails leaves the error, the display and the count as they are.
C12_CancellationSilent ==
    [][ \A r \in 1..Len(reqs) :
          (Settles(r) /\ currentRequestRef # <<reqs[r].id>>)
          => /\ error' = error
             /\ visualizedImage' = visualizedImage
             /\ deps'.visualizationCount = deps.visualizationCount ]_vars

\* A request failed while another identity was current, and every request
\* dispatched is still counted.
C12_Witness ==
    /\ \E r \in 1..Len(reqs) : reqs[r].status \in {"dropped", "cancelled", "stale"}
    /\ \A r \in 1..Len(reqs) : reqs[r].status \in {"dropped", "cancelled", "stale", "inflight"}
    /\ deps.visualizationCount = Len(reqs)
    /\ visualizedImage = <<>>
    /\ error = ""

\* C13 (as claimed): a request after which a request of another identity was
\* dispatched is superseded: when it settles it changes neither the display
\* nor the error nor the loading indicator, also when the current identity
\* is again equal to its own.
C13_SupersededSilent ==
    [][ \A r \in 1..Len(reqs) :
          (Settles(r) /\ \E q \in (r + 1)..Len(reqs) : reqs[q].id # reqs[r].id)
          => /\ visualizedImage' = visualizedImage
             /\ error' = error
             /\ loading' = loading ]_vars

\* C14 (as claimed): when the result of a current request fails the sanity
\* check, an error is surfaced and the count is decremented back.
C14_InvalidRollsBack ==
    [][ \A r \in 1..Len(reqs) :
          (Settles(r) /\ reqs'[r].status = "invalid")
          => /\ error' # ""
             /\ deps'.visualizationCount = deps.visualizationCount - 1 ]_vars

----------------------------------------------------------------------------
(* Claims about ImageCache.getOrSet *)

\* C1 (as claimed): a getOrSet made after an earlier getOrSet of the same key
\* resolved with V, and finished within the TTL of the entry that gave V,
\* resolves with V and never invokes its fetcher, whatever the durable store
\* did in the two calls.
C1_SecondCallReplays ==
    \A c \in Calls :
        (/\ calls[c].pc \in {"done", "failed"}
         /\ calls[c].prior # <<>>
         /\ now - calls[c].prior[1].timestamp < TTL)
        => /\ calls[c].pc = "done"
           /\ calls[c].out = <<calls[c].prior[1].value>>
           /\ calls[c].fetches = 0

\* C3 (as claimed): one getOrSet invocation never invokes its fetcher two or
\* more times, also when the fetcher rejects or the write of the result fails.
C3_FetcherAtMostOnce ==
    \A c \in Calls : calls[c].fetches <= 1

\* C15 (as claimed): whatever the durable store does, a getOrSet whose
\* fetcher returned an artifact resolves: it does not reject.
C15_StoreFailuresTransparent ==
    \A c \in Calls : calls[c].pc = "failed" => calls[c].val = 0

\* C16 (as claimed): a getOrSet whose fetcher rejected rejects: it does not
\* resolve with a value, and writes no entry.
C16_FetcherFailurePropagates ==
    \A c \in Calls : calls[c].rejected > 0 => calls[c].pc # "done"

\* Call c settles in this step.
Returns(c) ==
    calls[c].pc \notin {"done", "failed"} /\ calls'[c].pc \in {"done", "failed"}

\* C17, first part: a getOrSet that settles less than TTL after the entry that
\* gave the key's last value was written resolves with that value and does
\* not invoke its fetcher.
C17_LiveEntryReturned ==
    \A c \in Calls :
        (/\ Returns(c)
         /\ calls[c].prior # <<>>
         /\ now - calls[c].prior[1].timestamp < TTL)
        => /\ calls'[c].pc = "done"
           /\ calls'[c].fetches = 0
           /\ calls'[c].out = <<calls[c].prior[1].value>>

\* C17, second part: a getOrSet that resolves without invoking its fetcher
\* returns an entry written less than TTL before.
C17_ExpiredEntryMissed ==
    \A c \in Calls :
        (Returns(c) /\ calls'[c].pc = "done" /\ calls'[c].fetches = 0)
        => now - calls'[c].ts < TTL

\* C17 (as claimed): both parts, for the durable store and the memory map.
C17_TTLExpiry == [][C17_LiveEntryReturned /\ C17_ExpiredEntryMissed]_vars

\* The second part on its own.
C17_ExpiryOnly == [][C17_ExpiredEntryMissed]_vars

----------------------------------------------------------------------------
(* Claims about the session rate limiter *)

\* C4 (as claimed): whenever localStorage holds no rate-limit data and the
\* backup store holds a prior state, the next checkRateLimit answers from the
\* backup's counts and restores that state into localStorage.
C4_RestoreOnCheck ==
    [][ (res'.op = "check" /\ ls = <<>> /\ idb # <<>>)
        => LET backup == getData(idb, now) IN
           /\ res'.allowed = checkResult(backup, now).allowed
           /\ ls'[1].daily.count = backup.daily.count
           /\ ls'[1].hourly.count = backup.hourly.count
           /\ ls'[1].cooldownUntil = backup.cooldownUntil ]_vars

\* C5 (as claimed): after 7 recordVisualization calls on one UTC day, a
\* checkRateLimit on that day is denied with the reason "Daily limit reached
\* (7/7)..." and dailyRemaining 0.
C5_DailyDenialAfterSeven ==
    (res.op = "check" /\ recLog.n = 7 /\ recLog.day = getTodayString(now))
    => /\ res.allowed = FALSE
       /\ res.reason # <<>>
       /\ res.reason[1] = "Daily limit reached"
       /\ res.reason[2] = 7 /\ res.reason[3] = 7
       /\ res.dailyRemaining = 0

\* C5 (amended): after 7 recordVisualization calls on one UTC day, a
\* checkRateLimit on that day is denied with dailyRemaining 0; its reason is
\* "Daily limit reached (7/7)..." when it is made 15 s or more after the 7th
\* record, and the cooldown text "Please wait n seconds..." before that.
C5_DailyDenialAfterCooldown ==
    (res.op = "check" /\ recLog.n = 7 /\ recLog.day = getTodayString(now))
    => /\ res.allowed = FALSE
       /\ res.dailyRemaining = 0
       /\ res.reason # <<>>
       /\ IF now >= recLog.at + 15 * SECOND_MS
          THEN /\ res.reason[1] = "Daily limit reached"
               /\ res.reason[2] = 7 /\ res.reason[3] = 7
          ELSE /\ res.reason[1] = "Please wait"
               /\ res.reason[2] = CeilDiv(recLog.at + 15 * SECOND_MS - now, 1000)

C5_Witness ==
    /\ res.op = "check" /\ recLog.n = 7 /\ recLog.day = getTodayString(now)
    /\ now >= recLog.at + 15 * SECOND_MS
    /\ res.reason[1] = "Daily limit reached"

\* C6: checkRateLimit decides by the first of cooldown, daily limit, hourly
\* limit that holds of the state it read, and admits only when none holds.
C6_CheckOrder ==
    res.op = "check" =>
        LET d == ls[1]
            cooling == now < d.cooldownUntil
            dailyFull == d.daily.count >= DAILY_VISUALIZATIONS
            hourlyFull == d.hourly.count >= HOURLY_VISUALIZATIONS
        IN /\ cooling =>
                /\ ~res.allowed
                /\ res.reason[1] = "Please wait"
                /\ res.waitTime = CeilDiv(d.cooldownUntil - now, 1000)
                /\ res.waitTime >= 1
           /\ (~cooling /\ dailyFull) =>
                /\ ~res.allowed
                /\ res.reason[1] = "Daily limit reached"
           /\ (~cooling /\ ~dailyFull /\ hourlyFull) =>
                /\ ~res.allowed
                /\ res.reason[1] = "Hourly limit reached"
           /\ res.allowed <=> (~cooling /\ ~dailyFull /\ ~hourlyFull)

C6_Witness ==
    /\ res.op = "check"
    /\ ls[1].daily.count >= DAILY_VISUALIZATIONS
    /\ ls[1].hourly.count >= HOURLY_VISUALIZATIONS
    /\ now >= ls[1].cooldownUntil
    /\ res.reason[1] = "Daily limit reached"

\* C7 (as claimed): when every flow records only after its own admitted check,
\* the persisted daily.count never exceeds DAILY_LIMIT.
C7_DailyCountBounded ==
    ls # <<>> => ls[1].daily.count <= DAILY_VISUALIZATIONS

\* The persisted state was written on the day before the present one.
StoredYesterday ==
    ls # <<>> /\ ls[1].daily.date + 1 = getTodayString(now)

\* The persisted state was written in the hour window before the present one.
StoredLastHour ==
    ls # <<>> /\ ls[1].hourly.window + HOUR_MS = getCurrentHourWindow(now)

\* C18 (as claimed): when daily.count is at the limit on day D, a check made
\* on day D+1, at any instant, is admitted with dailyRemaining 7.
C18_DailyReset ==
    [][ (res'.op = "check" /\ StoredYesterday
         /\ ls[1].daily.count = DAILY_VISUALIZATIONS)
        => /\ res'.allowed
           /\ res'.dailyRemaining = DAILY_VISUALIZATIONS ]_vars

\* C18 (amended): when daily.count is at the limit on day D, a check made on
\* day D+1 reports dailyRemaining 7; it is admitted when the cooldown of the
\* last record has run out, and denied with "Please wait" before that.
C18_DailyResetAfterCooldown ==
    [][ (res'.op = "check" /\ StoredYesterday
         /\ ls[1].daily.count = DAILY_VISUALIZATIONS)
        => /\ res'.dailyRemaining = DAILY_VISUALIZATIONS
           /\ res'.allowed <=> now >= ls[1].cooldownUntil
           /\ ~res'.allowed => res'.reason[1] = "Please wait" ]_vars

C18_Witness ==
    /\ res.op = "check" /\ res.allowed
    /\ res.dailyRemaining = DAILY_VISUALIZATIONS
    /\ recLog.n = DAILY_VISUALIZATIONS
    /\ recLog.day + 1 = getTodayString(now)

\* C19 (as claimed): when hourly.count is at the limit in window H and
\* daily.count is below its limit, a check made in the next window is
\* admitted with hourlyRemaining 2 and empties the persisted hourly.requests.
C19_HourlyReset ==
    [][ (res'.op = "check" /\ StoredLastHour
         /\ ls[1].hourly.count = HOURLY_VISUALIZATIONS
         /\ ls[1].daily.count < DAILY_VISUALIZATIONS)
        => /\ res'.allowed
           /\ res'.hourlyRemaining = HOURLY_VISUALIZATIONS
           /\ ls'[1].hourly.requests = <<>> ]_vars

\* C19 (amended): when hourly.count is at the limit in window H and
\* daily.count is below its limit, a check made in the next window reports
\* hourlyRemaining 2 and empties the persisted hourly.requests; it is admitted
\* when the cooldown of the last record has run out, and denied with "Please
\* wait" before that.
C19_HourlyResetAfterCooldown ==
    [][ (res'.op = "check" /\ StoredLastHour
         /\ ls[1].hourly.count = HOURLY_VISUALIZATIONS
         /\ ls[1].daily.count < DAILY_VISUALIZATIONS)
        => /\ res'.hourlyRemaining = HOURLY_VISUALIZATIONS
           /\ ls'[1].hourly.requests = <<>>
           /\ ls'[1].hourly.count = 0
           /\ res'.allowed <=> now >= ls[1].cooldownUntil
           /\ ~res'.allowed => res'.reason[1] = "Please wait" ]_vars

C19_Witness ==
    /\ res.op = "check" /\ res.allowed
    /\ res.hourlyRemaining = HOURLY_VISUALIZATIONS
    /\ ls[1].hourly.requests = <<>>
    /\ recLog.n = HOURLY_VISUALIZATIONS
    /\ recLog.day = getTodayString(now)
    /\ getCurrentHourWindow(recLog.at) + HOUR_MS = getCurrentHourWindow(now)

\* C20: the record that leaves daily.count = n sets cooldownUntil to its time
\* plus 5, 10, 15, 15, ... seconds for n = 1, 2, 3, 4, ...; a check before
\* that instant is denied with "Please wait", a check at or after it is not.
C20_CooldownEnforced ==
    (res.op = "check" /\ recLog.n > 0) =>
        LET until == recLog.at + Min(5 * recLog.n, 15) * SECOND_MS IN
        /\ ls[1].cooldownUntil = until
        /\ now < until => (~res.allowed /\ res.reason[1] = "Please wait")
        /\ now >= until => (res.reason = <<>> \/ res.reason[1] # "Please wait")

C20_Witness ==
    /\ res.op = "check" /\ recLog.n = 3
    /\ now = recLog.at + 2 * TickMs
    /\ ~res.allowed /\ res.reason[1] = "Please wait"

\* C21: for request counts 1 <= n1 < n2, calculateCooldown(n1) <=
\* calculateCooldown(n2) <= MAX_COOLDOWN_SECONDS, and calculateCooldown(n) >=
\* MIN_COOLDOWN_SECONDS for every n >= 1.
C21_CooldownMonotoneCapped ==
    /\ \A i \in {1, 2} :
          cooldown[i] # <<>> =>
              /\ cooldown[i][1] >= MIN_COOLDOWN_SECONDS
              /\ cooldown[i][1] <= MAX_COOLDOWN_SECONDS
    /\ (cooldown[1] # <<>> /\ cooldown[2] # <<>>) => cooldown[1][1] <= cooldown[2][1]

\* Both calls were made, for counts on the slope and past the cap.
C21_Witness ==
    /\ requestCounts = <<2, MaxRequestCount>>
    /\ cooldown = <<<<10>>, <<MAX_COOLDOWN_SECONDS>>>>

\* The step is a recordImageUpload(h) call.
Uploads(h) == res'.op = "upload" /\ res'.imageHash = h

\* C22: recordImageUpload(h) with a hash h already recorded on the same UTC
\* day returns allowed: true and leaves the images set as it is, h in it
\* once, also when the set is full.
C22_RepeatNotCounted ==
    [][ \A h \in UploadHashes :
          (Uploads(h) /\ imgLog.day = getTodayString(now) /\ h \in imgLog.seen)
          => /\ res'.allowed
             /\ ls'[1].images = ls[1].images
             /\ Cardinality({i \in 1..Len(ls'[1].images) :
                                ls'[1].images[i] = h}) = 1 ]_vars

\* The first hash of a full set was passed again and admitted.
C22_Witness ==
    /\ res.op = "upload" /\ res.allowed
    /\ Len(ls[1].images) = MAX_UNIQUE_IMAGES_PER_DAY
    /\ ls[1].images[1] = res.imageHash

C24_CheckReadOnly ==
    [][ res'.op = "check"
        => /\ ls' = ls
           /\ idbPending' = idbPending
           /\ idb' = idb ]_vars

C26_MirrorConverges ==
    idbPending = <<>> => idb = ls

\* Visualizations were recorded and a photo admitted on the first day, the
\* state was reset lazily on the second, and all of it has been mirrored.
C26_Witness ==
    /\ idbPending = <<>> /\ ls # <<>> /\ idb = ls
    /\ recLog.day = 0 /\ recLog.n >= 2
    /\ imgLog.day = 0 /\ imgLog.seen # {}
    /\ ls[1].daily.date = 1 /\ ls[1].daily.count = 0 /\ ls[1].images = <<>>

\* C30 (as claimed): a recordVisualization call leaves the persisted
\* daily.count of the day one higher than it was, and no other step of any
\* flow, initRateLimiter included, changes that count or puts back a state
\* from before the last record.
C30_NoLostUpdates ==
    [][ (ls # <<>> /\ ls' # <<>> /\ ls[1].daily.date = getTodayString(now))
        => /\ ls'[1].daily.count =
                 ls[1].daily.count + (IF res'.op = "record" THEN 1 ELSE 0)
           /\ ls'[1].lastRequest >= ls[1].lastRequest ]_vars

\* C27: two payloads of the same length that differ only within their last
\* 100 characters get different hashes from generateImageHash when the digest
\* is available, whatever the length of the payloads.
C27_TailDifferenceSeparated ==
    \A a, b \in 1..Len(hashLog) :
        LET p == payloads[hashLog[a].arg]
            q == payloads[hashLog[b].arg]
        IN (/\ hashLog[a].crypto /\ hashLog[b].crypto
            /\ Length(p) = Length(q)
            /\ p # q
            /\ Substring(p, 0, Length(p) - 100) = Substring(q, 0, Length(q) - 100))
           => hashLog[a].hash # hashLog[b].hash

\* C28: all generateImageHash calls on the identical payload return the
\* identical string, also when the digest resolves in some calls and fails
\* in others.
C28_HashStable ==
    \A a, b \in 1..Len(hashLog) :
        payloads[hashLog[a].arg] = payloads[hashLog[b].arg]
            => hashLog[a].hash = hashLog[b].hash

\* C29: when a clear() call resolves, neither the durable store nor the
\* in-memory fallback map holds an entry, also when the durable store could
\* not be opened or cleared during the call.
C29_ClearEmptiesBoth ==
    [][ (/\ clearPc \in {"open", "clearing"}
         /\ clearPc' \in {"cleared", "openFailed", "clearFailed"})
        => \A k \in Keys : store'[k] = <<>> /\ memoryCache'[k] = <<>> ]_vars

\* C31: when getOrSet invokes the fetcher of a request whose requestId is not
\* the current one, no remote call is started for it: after any step of such
\* a call it is not waiting for a remote call, whether the fetcher was invoked
\* after the read or by the fallback to the memory map.
C31_SupersededNotFetched ==
    [][ \A c \in Calls :
          (/\ calls[c].owner # 0
           /\ currentRequestRef # <<reqs[calls[c].owner].id>>
           /\ calls'[c] # calls[c])
          => calls'[c].pc \notin {"fetch", "memfetch"} ]_vars

\* A request was cancelled by its fetcher before any remote call of the
\* session had resolved, while a younger request was in flight.
C31_Witness ==
    /\ nextVal = 1
    /\ \E r \in 1..Len(reqs) : reqs[r].status = "cancelled"
    /\ \E r \in 1..Len(reqs) : reqs[r].status = "inflight"

\* An entry that is present and at least TTL old
Expired(e, t) == e # <<>> /\ t - e[1].timestamp >= TTL

\* C32, durable store: the step in which a getOrSet call reads an expired
\* entry of the store deletes it and goes on as a miss (to the fetcher).
C32_StorePurged ==
    \A c \in Calls :
        (/\ calls[c].pc = "read" /\ calls'[c].pc # "read"
         /\ Expired(store[calls[c].key], now))
        => /\ store'[calls[c].key] = <<>>
           /\ calls'[c].pc = "fetch"

\* C32, memory map: the step in which a getOrSet call falls back to the
\* memory map and reads an expired entry there deletes it and goes on as a
\* miss.
C32_MemoryPurged ==
    \A c \in Calls :
        (/\ ~calls[c].err /\ calls'[c].err
         /\ Expired(memoryCache[calls[c].key], now))
        => /\ memoryCache'[calls[c].key] = <<>>
           /\ calls'[c].pc = "memfetch"

\* C32 (as claimed): an expired entry is deleted from the store it was read
\* from, durable store or memory map, by the getOrSet call that reads it, so
\* that it is gone also when the fetch that follows fails.
C32_ExpiredPurgedOnRead == [][C32_StorePurged /\ C32_MemoryPurged]_vars

\* C33, first part: a step in which the open or the write of a getOrSet call
\* fails leaves no kept connection.
C33_DiscardedOnStoreError ==
    \A c \in Calls :
        (calls[c].pc \in {"open", "put"} /\ ~calls[c].err /\ calls'[c].err)
        => ~dbConnection'

\* C33, second part: a getOrSet call that starts without a kept connection
\* opens a new one, which is kept when the open succeeds; a call that starts
\* with a kept connection uses it without opening.
C33_ReopenedWhenDiscarded ==
    \A c \in Calls :
        /\ (calls[c].pc = "idle" /\ calls'[c].pc = "open")
           => calls'[c].reopen = ~dbConnection
        /\ (calls[c].pc = "open" /\ calls[c].reopen /\ calls'[c].pc = "read")
           => dbConnection'

\* C33, third part: a getOrSet call that meets no store error leaves the kept
\* connection in place: the connection is discarded only by the step of a call
\* that is at the open, the read or the write of the store.
C33_KeptWithoutStoreError ==
    (dbConnection /\ ~dbConnection')
    => \E c \in Calls : /\ calls[c].pc \in {"open", "read", "put"}
                        /\ calls'[c] # calls[c]

\* C33 (as claimed): the three parts.
C33_ConnectionLifecycle ==
    [][ /\ C33_DiscardedOnStoreError
        /\ C33_ReopenedWhenDiscarded
        /\ C33_KeptWithoutStoreError ]_vars

\* C34: right after checkRateLimit, recordVisualization, recordImageUpload
\* or getRateLimitStatus, the state persisted in localStorage has the start
\* of the current UTC hour as hourly.window and no timestamp before it in
\* hourly.requests.
C34_HourlyLogPurged ==
    res.op \in {"check", "record", "upload", "status"}
    => /\ ls # <<>>
       /\ ls[1].hourly.window = getCurrentHourWindow(now)
       /\ \A i \in 1..Len(ls[1].hourly.requests) :
              ls[1].hourly.requests[i] >= getCurrentHourWindow(now)

\* getRateLimitStatus has run in the second hour window and left an empty
\* log, while the backup store still holds a request logged in the first.
C34_Witness ==
    /\ res.op = "status"
    /\ getCurrentHourWindow(now) = HOUR_MS
    /\ ls # <<>> /\ ls[1].hourly.requests = <<>>
    /\ idb # <<>> /\ idb[1].hourly.requests # <<>>
    /\ idb[1].hourly.window = 0

\* The states the limiter has written: localStorage, the backup store and
\* the mirror writes in flight
Persisted ==
    {ls[i] : i \in 1..Len(ls)} \cup {idb[i] : i \in 1..Len(idb)}
    \cup {Writes(idbPending)[i] : i \in 1..Len(Writes(idbPending))}

\* C35: in every state the limiter has written, hourly.count is the number
\* of timestamps in hourly.requests.
C35_HourlyCountIsLogLength ==
    \A data \in Persisted : data.hourly.count = Len(data.hourly.requests)

\* Two requests are logged in the window that begins with the second day,
\* after a photo was admitted on the first day.
C35_Witness ==
    /\ ls # <<>> /\ ls[1].hourly.window = DAY_MS
    /\ ls[1].hourly.count = 2 /\ Len(ls[1].hourly.requests) = 2
    /\ imgLog.day = 0 /\ imgLog.seen # {}

\* C36: while the backup store holds a count above zero for the current UTC
\* day, no step of the limiter puts a state with count zero in its place,
\* whatever localStorage holds (also nothing, after it was cleared).
C36_BackupNotZeroed ==
    [][ (/\ idb # <<>>
         /\ idb[1].daily.date = getTodayString(now)
         /\ idb[1].daily.count > 0)
        => (idb' # <<>> /\ idb'[1].daily.count > 0) ]_vars

\* An entry that holds an artifact failing the sanity check
InvalidEntry(e) == e # <<>> /\ ~ValidArtifact(e[1].value)

\* C37: once a request has ended with an artifact that failed the sanity
\* check, neither the durable store nor the memory map holds an invalid
\* artifact under the key of its image and colour, so that a later request
\* for them fetches again.
C37_InvalidNotCached ==
    \A r \in 1..Len(reqs) :
        reqs[r].status = "invalid"
        => LET k == CacheKey(reqs[r].id[1], reqs[r].id[2])
           IN ~InvalidEntry(store[k]) /\ ~InvalidEntry(memoryCache[k])

\* C38: when every dispatched request has ended, no trigger waits in a
\* debounce timer and no photo is being processed, the loading indicator is
\* off, also after a handleReset during a request.
C38_LoadingNotStuck ==
    (/\ \A r \in 1..Len(reqs) : reqs[r].status # "inflight"
     /\ Timers = {}
     /\ proc.stage = "none")
    => ~loading

====
